---- MODULE Spec2Model ----
(***************************************************************************)
(* Model of the metro turnstile controller of                              *)
(* src/ProyectoFinal/CanceladoraMetro.py.                                  *)
(*                                                                         *)
(* Process 1 runs the Flask routes (login, logout, simular_acceso,         *)
(* reiniciar_estadisticas), the event processor hilo_procesador_eventos    *)
(* and the door controller hilo_control_puertas.  Process 2 runs the       *)
(* button monitor hilo_monitor_boton and the laser monitor                 *)
(* hilo_monitor_laseres, which also runs esperar_persona_paso.  The        *)
(* processes share the manager dict estado_sistema and the two queues      *)
(* cola_eventos and cola_comandos.  Every access to the shared dict or to  *)
(* a queue is one step of the thread that makes it, and the threads        *)
(* interleave freely.  Calls that touch only the display or the log, and   *)
(* sleeps, are part of the step they follow.  Time is not modelled, except *)
(* the 15 s deadline of esperar_persona_paso, counted in ticks of Paso     *)
(* seconds.  One web request is served at a time.                          *)
(*                                                                         *)
(* The sequential card-reader prototype of                                 *)
(* src/Pruebas/sistema_completo_metro.py is modelled by the Pt actions and *)
(* its own specification.                                                  *)
(***************************************************************************)
EXTENDS Naturals, Sequences, FiniteSets, TLC

\* ------------------------------------------------------------------ bounds
\* External inputs per behaviour: logins, resets, web triggers, presses of the
\* physical button and changes of a beam sensor.
MaxEntradas == 3
\* boton_presionado events put on cola_eventos per behaviour (physical + web).
MaxBoton == 2
\* Seconds between two readings of the clock that the model tells apart.
Paso == 5
\* Milliseconds between two readings of the button monitor's clock.
PasoBoton == 250
\* Minutes between two readings of the clock of check_login_attempts.
PasoReloj == 5
\* Minutes of clock a behaviour covers.
MaxReloj == 20
\* 12-byte transmissions of the card reader per behaviour.
MaxTramas == 2

\* ------------------------------------------------------- program constants
\* esperar_persona_paso: timeout = time.time() + 15
TIMEOUT == 15
\* hilo_monitor_boton: time.sleep(0.5) after each event, in ms
QUIETO == 500
\* config.MAX_LOGIN_ATTEMPTS
MAX_LOGIN_ATTEMPTS == 5
\* config.LOCKOUT_DURATION, in minutes
LOCKOUT_DURATION == 15
\* esperar_tarjeta_parallax: the reader sends 12 bytes, 0x0A + 10 ASCII + 0x0D
TRAMA == 12

None == "None"

\* USUARIOS: username -> nombre, rol (the defaults of config.py)
Usuarios == {"admin", "usuario1"}

Nombre(u) == IF u = "admin" THEN "Administrador" ELSE "Juan Perez"

Rol(u) == IF u = "admin" THEN "admin" ELSE "usuario"

\* The usernames a login request may carry: those of USUARIOS and one that is
\* not registered.
Nombres == Usuarios \cup {"intruso"}

\* login_attempts is kept as a function on Nombres; a username without an entry
\* has the record SinRegistro (attempts are at least 1 in every real entry).
SinRegistro == [attempts |-> 0, last |-> 0]

VARIABLES
    estado_sistema,           \* the manager dict shared by both processes
    cola_eventos,             \* Queue: process 2 and the web trigger -> event processor
    cola_comandos,            \* Queue of commands, polled by BOTH hilo_control_puertas
                              \* and hilo_monitor_laseres
    led_rojo, led_verde,      \* indicator LEDs (TRUE = lit)
    s1, s2,                   \* servo angles
    denegados,                \* ACCESO DENEGADO notifications issued so far
    boton, laserA, laserB,    \* physical inputs (is_pressed)
    sesiones,                 \* usernames holding a Flask session
    ev_pc, ev_usuario, ev_tmp,        \* hilo_procesador_eventos and its locals
    dc_pc,                            \* hilo_control_puertas
    bm_pc,                            \* hilo_monitor_boton
    lm_pc,                            \* hilo_monitor_laseres
    estado_laser_a_anterior, estado_laser_b_anterior,
    detectado, lm_t,                  \* esperar_persona_paso: flag, seconds elapsed
    aviso_timeout,                    \* the last wait logged the timeout warning
    web_pc, web_usuario,              \* the request being served and its user
    web_respuesta,                    \* HTTP status of the last /simular_acceso answer
    db_accesos,                       \* access_granted values of the access events
                                      \* written to InfluxDB so far
    b_hist,                           \* history: what the wait saw of sensor B
    aperturas, incrementos,           \* history: abrir_puertas runs and increments of
                                      \* total_accesos since the last reset
    n_entradas, n_boton,              \* inputs used / button events sent so far
    bm_t,                             \* hilo_monitor_boton: ms slept since its last event
    main_pc,                          \* iniciar_sistema: serving, or where in its
                                      \* finally block
    login_attempts,                   \* username -> [attempts, last]: failed logins
    ahora,                            \* datetime.now(), in minutes
    login_respuesta,                  \* HTTP status of the last /api/login answer
    ser_buf,                          \* prototype: input buffer of the serial port; each
                                      \* byte with whether it came in during a sequence
    linea,                            \* prototype: bytes the reader is still sending
    pt_pc,                            \* prototype: position of main
    codigo_tarjeta,                   \* prototype: value esperar_tarjeta_parallax returned
    pt_descartados                    \* history: bytes that came in during a sequence
                                      \* and were dropped by reset_input_buffer

vars == <<estado_sistema, cola_eventos, cola_comandos, led_rojo, led_verde, s1, s2,
          denegados, boton, laserA, laserB, sesiones, ev_pc, ev_usuario, ev_tmp, dc_pc,
          bm_pc, lm_pc, estado_laser_a_anterior, estado_laser_b_anterior, detectado,
          lm_t, aviso_timeout, web_pc, web_usuario, web_respuesta, db_accesos,
          b_hist, aperturas, incrementos,
          n_entradas, n_boton, bm_t, main_pc,
          login_attempts, ahora, login_respuesta,
          ser_buf, linea, pt_pc, codigo_tarjeta, pt_descartados>>

\* iniciar_sistema: the state after construction and inicializar_hardware
Init ==
    /\ estado_sistema = [estado_puerta |-> "CERRADA",
                         total_accesos |-> 0,
                         personas_dentro |-> 0,
                         detectando_paso |-> FALSE,
                         boton_habilitado |-> FALSE,
                         usuario_actual |-> None,
                         ultimo_acceso |-> None,
                         laser_a_bloqueado |-> FALSE,
                         laser_b_bloqueado |-> FALSE]
    /\ cola_eventos = <<>>
    /\ cola_comandos = <<>>
    /\ led_rojo = FALSE /\ led_verde = FALSE
    /\ s1 = 0 /\ s2 = 180
    /\ denegados = 0
    /\ boton = FALSE /\ laserA = FALSE /\ laserB = FALSE
    /\ sesiones = {}
    /\ ev_pc = "idle" /\ ev_usuario = None /\ ev_tmp = 0
    /\ dc_pc = "idle"
    /\ bm_pc = "inicio"
    /\ lm_pc = "bucle"
    /\ estado_laser_a_anterior = FALSE /\ estado_laser_b_anterior = FALSE
    /\ detectado = FALSE /\ lm_t = 0 /\ aviso_timeout = FALSE
    /\ web_pc = "idle" /\ web_usuario = None
    /\ web_respuesta = 0
    /\ db_accesos = {}
    /\ b_hist = "nada"
    /\ aperturas = 0 /\ incrementos = 0
    /\ n_entradas = 0 /\ n_boton = 0
    /\ bm_t = 0
    /\ main_pc = "servidor"
    /\ login_attempts = [u \in Nombres |-> SinRegistro]
    /\ ahora = 0
    /\ login_respuesta = 0
    /\ ser_buf = <<>> /\ linea = <<>>
    /\ pt_pc = "inicio"
    /\ codigo_tarjeta = <<>>
    /\ pt_descartados = 0

\* ----------------------------------------------------------------- helpers
Cmd(a) == [accion |-> a]

EvtBoton(o) == [tipo |-> "boton_presionado", laser |-> None, origen |-> o]

EvtLaser(bloqueado, id) ==
    [tipo |-> IF bloqueado THEN "laser_bloqueado" ELSE "laser_libre",
     laser |-> id, origen |-> None]

\* ------------------------------------------- HILO 1: hilo_procesador_eventos
\* A variant of the button handler without the boton_habilitado gate: every event
\* enters the grant path.
MutEvBoton ==
    /\ ev_pc = "idle"
    /\ cola_eventos # <<>>
    /\ Head(cola_eventos).tipo = "boton_presionado"
    /\ cola_eventos' = Tail(cola_eventos)
    /\ ev_pc' = "usuario"
    /\ UNCHANGED <<estado_sistema, cola_comandos, led_rojo, led_verde, s1, s2,
                   denegados, boton, laserA, laserB, sesiones, ev_usuario, ev_tmp,
                   dc_pc, bm_pc, lm_pc, estado_laser_a_anterior,
                   estado_laser_b_anterior, detectado, lm_t, aviso_timeout, web_pc,
                   web_usuario, web_respuesta, db_accesos, b_hist, aperturas,
                   incrementos, n_entradas, n_boton, bm_t, main_pc, login_attempts,
                   ahora, login_respuesta, ser_buf, linea, pt_pc, codigo_tarjeta,
                   pt_descartados>>

\* evento = cola_eventos.get(); tipo boton_presionado: procesar_acceso_desde_evento,
\* whose first statement reads boton_habilitado.  Access disabled:
\* mostrar_lcd("ACCESO DENEGADO", "Login primero"); logger.warning(...); time.sleep(2);
\* mostrar_lcd("Login en Web", "Para acceder"); return.  Otherwise the access is
\* granted by the statements that follow.
EvBoton ==
    /\ ev_pc = "idle"
    /\ cola_eventos # <<>>
    /\ Head(cola_eventos).tipo = "boton_presionado"
    /\ cola_eventos' = Tail(cola_eventos)
    /\ IF ~estado_sistema.boton_habilitado
         THEN /\ denegados' = denegados + 1
              /\ ev_pc' = "idle"
         ELSE /\ ev_pc' = "usuario"
              /\ denegados' = denegados
    /\ UNCHANGED <<estado_sistema, cola_comandos, led_rojo, led_verde, s1, s2, boton,
                   laserA, laserB, sesiones, ev_usuario, ev_tmp, dc_pc, bm_pc, lm_pc,
                   estado_laser_a_anterior, estado_laser_b_anterior, detectado, lm_t,
                   aviso_timeout, web_pc, web_usuario, web_respuesta, db_accesos,
                   b_hist, aperturas, incrementos, n_entradas, n_boton, bm_t, main_pc,
                   login_attempts, ahora, login_respuesta, ser_buf, linea, pt_pc,
                   codigo_tarjeta, pt_descartados>>

\* usuario = estado_sistema["usuario_actual"]
EvLeerUsuario ==
    /\ ev_pc = "usuario"
    /\ ev_usuario' = estado_sistema.usuario_actual
    /\ ev_pc' = "total_r"
    /\ UNCHANGED <<estado_sistema, cola_eventos, cola_comandos, led_rojo, led_verde,
                   s1, s2, denegados, boton, laserA, laserB, sesiones, ev_tmp, dc_pc,
                   bm_pc, lm_pc, estado_laser_a_anterior, estado_laser_b_anterior,
                   detectado, lm_t, aviso_timeout, web_pc, web_usuario, web_respuesta,
                   db_accesos, b_hist, aperturas, incrementos, n_entradas, n_boton,
                   bm_t, main_pc, login_attempts, ahora, login_respuesta, ser_buf,
                   linea, pt_pc, codigo_tarjeta, pt_descartados>>

\* estado_sistema["total_accesos"] = estado_sistema["total_accesos"] + 1 : the read
EvTotalLeer ==
    /\ ev_pc = "total_r"
    /\ ev_tmp' = estado_sistema.total_accesos
    /\ ev_pc' = "total_w"
    /\ UNCHANGED <<estado_sistema, cola_eventos, cola_comandos, led_rojo, led_verde,
                   s1, s2, denegados, boton, laserA, laserB, sesiones, ev_usuario,
                   dc_pc, bm_pc, lm_pc, estado_laser_a_anterior,
                   estado_laser_b_anterior, detectado, lm_t, aviso_timeout, web_pc,
                   web_usuario, web_respuesta, db_accesos, b_hist, aperturas,
                   incrementos, n_entradas, n_boton, bm_t, main_pc, login_attempts,
                   ahora, login_respuesta, ser_buf, linea, pt_pc, codigo_tarjeta,
                   pt_descartados>>

\* ... and the write
EvTotalEscribir ==
    /\ ev_pc = "total_w"
    /\ estado_sistema' = [estado_sistema EXCEPT !.total_accesos = ev_tmp + 1]
    /\ incrementos' = incrementos + 1
    /\ ev_pc' = "pers_r"
    /\ UNCHANGED <<cola_eventos, cola_comandos, led_rojo, led_verde, s1, s2, denegados,
                   boton, laserA, laserB, sesiones, ev_usuario, ev_tmp, dc_pc, bm_pc,
                   lm_pc, estado_laser_a_anterior, estado_laser_b_anterior, detectado,
                   lm_t, aviso_timeout, web_pc, web_usuario, web_respuesta, db_accesos,
                   b_hist, aperturas, n_entradas, n_boton, bm_t, main_pc,
                   login_attempts, ahora, login_respuesta, ser_buf, linea, pt_pc,
                   codigo_tarjeta, pt_descartados>>

\* estado_sistema["personas_dentro"] = estado_sistema["personas_dentro"] + 1 : the read
EvPersonasLeer ==
    /\ ev_pc = "pers_r"
    /\ ev_tmp' = estado_sistema.personas_dentro
    /\ ev_pc' = "pers_w"
    /\ UNCHANGED <<estado_sistema, cola_eventos, cola_comandos, led_rojo, led_verde,
                   s1, s2, denegados, boton, laserA, laserB, sesiones, ev_usuario,
                   dc_pc, bm_pc, lm_pc, estado_laser_a_anterior,
                   estado_laser_b_anterior, detectado, lm_t, aviso_timeout, web_pc,
                   web_usuario, web_respuesta, db_accesos, b_hist, aperturas,
                   incrementos, n_entradas, n_boton, bm_t, main_pc, login_attempts,
                   ahora, login_respuesta, ser_buf, linea, pt_pc, codigo_tarjeta,
                   pt_descartados>>

\* ... and the write
EvPersonasEscribir ==
    /\ ev_pc = "pers_w"
    /\ estado_sistema' = [estado_sistema EXCEPT !.personas_dentro = ev_tmp + 1]
    /\ ev_pc' = "ultimo"
    /\ UNCHANGED <<cola_eventos, cola_comandos, led_rojo, led_verde, s1, s2, denegados,
                   boton, laserA, laserB, sesiones, ev_usuario, ev_tmp, dc_pc, bm_pc,
                   lm_pc, estado_laser_a_anterior, estado_laser_b_anterior, detectado,
                   lm_t, aviso_timeout, web_pc, web_usuario, web_respuesta, db_accesos,
                   b_hist, aperturas, incrementos, n_entradas, n_boton, bm_t, main_pc,
                   login_attempts, ahora, login_respuesta, ser_buf, linea, pt_pc,
                   codigo_tarjeta, pt_descartados>>

\* estado_sistema["ultimo_acceso"] = {"usuario": usuario, "timestamp": timestamp}
\* if db_handler: db_handler.write_access_event(..., access_granted=True, ...)
EvUltimoAcceso ==
    /\ ev_pc = "ultimo"
    /\ estado_sistema' = [estado_sistema EXCEPT !.ultimo_acceso = ev_usuario]
    /\ db_accesos' = db_accesos \cup {TRUE}
    /\ ev_pc' = "put_abrir"
    /\ UNCHANGED <<cola_eventos, cola_comandos, led_rojo, led_verde, s1, s2, denegados,
                   boton, laserA, laserB, sesiones, ev_usuario, ev_tmp, dc_pc, bm_pc,
                   lm_pc, estado_laser_a_anterior, estado_laser_b_anterior, detectado,
                   lm_t, aviso_timeout, web_pc, web_usuario, web_respuesta, b_hist,
                   aperturas, incrementos, n_entradas, n_boton, bm_t, main_pc,
                   login_attempts, ahora, login_respuesta, ser_buf, linea, pt_pc,
                   codigo_tarjeta, pt_descartados>>

\* cola_comandos.put({'accion': 'abrir_puertas'})
EvPutAbrir ==
    /\ ev_pc = "put_abrir"
    /\ cola_comandos' = Append(cola_comandos, Cmd("abrir_puertas"))
    /\ ev_pc' = "put_esperar"
    /\ UNCHANGED <<estado_sistema, cola_eventos, led_rojo, led_verde, s1, s2,
                   denegados, boton, laserA, laserB, sesiones, ev_usuario, ev_tmp,
                   dc_pc, bm_pc, lm_pc, estado_laser_a_anterior,
                   estado_laser_b_anterior, detectado, lm_t, aviso_timeout, web_pc,
                   web_usuario, web_respuesta, db_accesos, b_hist, aperturas,
                   incrementos, n_entradas, n_boton, bm_t, main_pc, login_attempts,
                   ahora, login_respuesta, ser_buf, linea, pt_pc, codigo_tarjeta,
                   pt_descartados>>

\* cola_comandos.put({'accion': 'esperar_paso'}); return
EvPutEsperar ==
    /\ ev_pc = "put_esperar"
    /\ cola_comandos' = Append(cola_comandos, Cmd("esperar_paso"))
    /\ ev_pc' = "idle"
    /\ ev_usuario' = None
    /\ ev_tmp' = 0
    /\ UNCHANGED <<estado_sistema, cola_eventos, led_rojo, led_verde, s1, s2,
                   denegados, boton, laserA, laserB, sesiones, dc_pc, bm_pc, lm_pc,
                   estado_laser_a_anterior, estado_laser_b_anterior, detectado, lm_t,
                   aviso_timeout, web_pc, web_usuario, web_respuesta, db_accesos,
                   b_hist, aperturas, incrementos, n_entradas, n_boton, bm_t, main_pc,
                   login_attempts, ahora, login_respuesta, ser_buf, linea, pt_pc,
                   codigo_tarjeta, pt_descartados>>

\* tipo laser_bloqueado / laser_libre:
\*   laser_id = evento['laser'];  estado_sistema[f"laser_{laser_id}_bloqueado"] = True/False
\* The monitor sends the ids 'A' and 'B', so the key written is laser_A_bloqueado or
\* laser_B_bloqueado: a key the initial dict does not have, which the write adds.
\* The key is built from whatever id the event carries.
LaserKey(id) ==
    IF id = "A" THEN "laser_A_bloqueado"
    ELSE IF id = "B" THEN "laser_B_bloqueado"
    ELSE "laser_C_bloqueado"

EvLaser ==
    /\ ev_pc = "idle"
    /\ cola_eventos # <<>>
    /\ Head(cola_eventos).tipo \in {"laser_bloqueado", "laser_libre"}
    /\ Head(cola_eventos).laser # None
    /\ cola_eventos' = Tail(cola_eventos)
    /\ LET e == Head(cola_eventos)
       IN estado_sistema' =
            (LaserKey(e.laser) :> (e.tipo = "laser_bloqueado")) @@ estado_sistema
    /\ UNCHANGED <<cola_comandos, led_rojo, led_verde, s1, s2, denegados, boton,
                   laserA, laserB, sesiones, ev_pc, ev_usuario, ev_tmp, dc_pc, bm_pc,
                   lm_pc, estado_laser_a_anterior, estado_laser_b_anterior, detectado,
                   lm_t, aviso_timeout, web_pc, web_usuario, web_respuesta, db_accesos,
                   b_hist, aperturas, incrementos, n_entradas, n_boton, bm_t, main_pc,
                   login_attempts, ahora, login_respuesta, ser_buf, linea, pt_pc,
                   codigo_tarjeta, pt_descartados>>

\* -------------------------------------------- HILO 2: hilo_control_puertas
\* comando = cola_comandos.get(); dispatch on comando['accion'].  A command with
\* any other accion matches no branch and is dropped.
\* abrir_puertas starts with led_rojo.off(); led_verde.on(); mostrar_lcd("ACCESO OK", ...).
\* cerrar_puertas starts with mostrar_lcd("Cerrando...", ""); time.sleep(1).
DcTomar ==
    /\ dc_pc = "idle"
    /\ cola_comandos # <<>>
    /\ cola_comandos' = Tail(cola_comandos)
    /\ LET a == Head(cola_comandos).accion
       IN CASE a = "abrir_puertas" ->
                 /\ led_rojo' = FALSE /\ led_verde' = TRUE
                 /\ aperturas' = aperturas + 1
                 /\ dc_pc' = "abrir_estado"
            [] a \in {"cerrar_puertas", "inicializar"} ->
                 /\ dc_pc' = "cerrar_estado"
                 /\ led_rojo' = led_rojo /\ led_verde' = led_verde
                 /\ aperturas' = aperturas
            [] OTHER ->
                 /\ dc_pc' = "idle"
                 /\ led_rojo' = led_rojo /\ led_verde' = led_verde
                 /\ aperturas' = aperturas
    /\ UNCHANGED <<estado_sistema, cola_eventos, s1, s2, denegados, boton, laserA,
                   laserB, sesiones, ev_pc, ev_usuario, ev_tmp, bm_pc, lm_pc,
                   estado_laser_a_anterior, estado_laser_b_anterior, detectado, lm_t,
                   aviso_timeout, web_pc, web_usuario, web_respuesta, db_accesos,
                   b_hist, incrementos, n_entradas, n_boton, bm_t, main_pc,
                   login_attempts, ahora, login_respuesta, ser_buf, linea, pt_pc,
                   codigo_tarjeta, pt_descartados>>

\* abrir_puertas: estado_sistema["estado_puerta"] = "ABIERTA"; s1.angle = 90;
\* s2.angle = 90; return
DcAbrirEstado ==
    /\ dc_pc = "abrir_estado"
    /\ estado_sistema' = [estado_sistema EXCEPT !.estado_puerta = "ABIERTA"]
    /\ s1' = 90 /\ s2' = 90
    /\ dc_pc' = "idle"
    /\ UNCHANGED <<cola_eventos, cola_comandos, led_rojo, led_verde, denegados, boton,
                   laserA, laserB, sesiones, ev_pc, ev_usuario, ev_tmp, bm_pc, lm_pc,
                   estado_laser_a_anterior, estado_laser_b_anterior, detectado, lm_t,
                   aviso_timeout, web_pc, web_usuario, web_respuesta, db_accesos,
                   b_hist, aperturas, incrementos, n_entradas, n_boton, bm_t, main_pc,
                   login_attempts, ahora, login_respuesta, ser_buf, linea, pt_pc,
                   codigo_tarjeta, pt_descartados>>

\* A variant of cerrar_puertas that leaves the indicator LEDs as they are.
MutDcCerrarEstado ==
    /\ dc_pc = "cerrar_estado"
    /\ s1' = 0 /\ s2' = 180
    /\ estado_sistema' = [estado_sistema EXCEPT !.estado_puerta = "CERRADA"]
    /\ dc_pc' = "cerrar_boton"
    /\ UNCHANGED <<cola_eventos, cola_comandos, led_rojo, led_verde, denegados, boton,
                   laserA, laserB, sesiones, ev_pc, ev_usuario, ev_tmp, bm_pc, lm_pc,
                   estado_laser_a_anterior, estado_laser_b_anterior, detectado, lm_t,
                   aviso_timeout, web_pc, web_usuario, web_respuesta, db_accesos,
                   b_hist, aperturas, incrementos, n_entradas, n_boton, bm_t, main_pc,
                   login_attempts, ahora, login_respuesta, ser_buf, linea, pt_pc,
                   codigo_tarjeta, pt_descartados>>

\* cerrar_puertas: led_verde.off(); led_rojo.on(); s1.angle = 0; s2.angle = 180;
\* estado_sistema["estado_puerta"] = "CERRADA"
DcCerrarEstado ==
    /\ dc_pc = "cerrar_estado"
    /\ led_verde' = FALSE /\ led_rojo' = TRUE
    /\ s1' = 0 /\ s2' = 180
    /\ estado_sistema' = [estado_sistema EXCEPT !.estado_puerta = "CERRADA"]
    /\ dc_pc' = "cerrar_boton"
    /\ UNCHANGED <<cola_eventos, cola_comandos, denegados, boton, laserA, laserB,
                   sesiones, ev_pc, ev_usuario, ev_tmp, bm_pc, lm_pc,
                   estado_laser_a_anterior, estado_laser_b_anterior, detectado, lm_t,
                   aviso_timeout, web_pc, web_usuario, web_respuesta, db_accesos,
                   b_hist, aperturas, incrementos, n_entradas, n_boton, bm_t, main_pc,
                   login_attempts, ahora, login_respuesta, ser_buf, linea, pt_pc,
                   codigo_tarjeta, pt_descartados>>

\* A variant of cerrar_puertas that leaves boton_habilitado as it is.
MutDcCerrarBoton ==
    /\ dc_pc = "cerrar_boton"
    /\ dc_pc' = "cerrar_usuario"
    /\ UNCHANGED <<estado_sistema, cola_eventos, cola_comandos, led_rojo, led_verde,
                   s1, s2, denegados, boton, laserA, laserB, sesiones, ev_pc,
                   ev_usuario, ev_tmp, bm_pc, lm_pc, estado_laser_a_anterior,
                   estado_laser_b_anterior, detectado, lm_t, aviso_timeout, web_pc,
                   web_usuario, web_respuesta, db_accesos, b_hist, aperturas,
                   incrementos, n_entradas, n_boton, bm_t, main_pc, login_attempts,
                   ahora, login_respuesta, ser_buf, linea, pt_pc, codigo_tarjeta,
                   pt_descartados>>

\* cerrar_puertas: estado_sistema["boton_habilitado"] = False
DcCerrarBoton ==
    /\ dc_pc = "cerrar_boton"
    /\ estado_sistema' = [estado_sistema EXCEPT !.boton_habilitado = FALSE]
    /\ dc_pc' = "cerrar_usuario"
    /\ UNCHANGED <<cola_eventos, cola_comandos, led_rojo, led_verde, s1, s2, denegados,
                   boton, laserA, laserB, sesiones, ev_pc, ev_usuario, ev_tmp, bm_pc,
                   lm_pc, estado_laser_a_anterior, estado_laser_b_anterior, detectado,
                   lm_t, aviso_timeout, web_pc, web_usuario, web_respuesta, db_accesos,
                   b_hist, aperturas, incrementos, n_entradas, n_boton, bm_t, main_pc,
                   login_attempts, ahora, login_respuesta, ser_buf, linea, pt_pc,
                   codigo_tarjeta, pt_descartados>>

\* cerrar_puertas: estado_sistema["usuario_actual"] = None; then time.sleep(1);
\* mostrar_lcd("Login en Web", "Para acceder"); return
DcCerrarUsuario ==
    /\ dc_pc = "cerrar_usuario"
    /\ estado_sistema' = [estado_sistema EXCEPT !.usuario_actual = None]
    /\ dc_pc' = "idle"
    /\ UNCHANGED <<cola_eventos, cola_comandos, led_rojo, led_verde, s1, s2, denegados,
                   boton, laserA, laserB, sesiones, ev_pc, ev_usuario, ev_tmp, bm_pc,
                   lm_pc, estado_laser_a_anterior, estado_laser_b_anterior, detectado,
                   lm_t, aviso_timeout, web_pc, web_usuario, web_respuesta, db_accesos,
                   b_hist, aperturas, incrementos, n_entradas, n_boton, bm_t, main_pc,
                   login_attempts, ahora, login_respuesta, ser_buf, linea, pt_pc,
                   codigo_tarjeta, pt_descartados>>

\* --------------------------------------------- HILO 3: hilo_monitor_boton
\* cola_comandos_p2.put({'accion': 'inicializar'}) before the loop
BmInicializar ==
    /\ bm_pc = "inicio"
    /\ cola_comandos' = Append(cola_comandos, Cmd("inicializar"))
    /\ bm_pc' = "espera"
    /\ UNCHANGED <<estado_sistema, cola_eventos, led_rojo, led_verde, s1, s2,
                   denegados, boton, laserA, laserB, sesiones, ev_pc, ev_usuario,
                   ev_tmp, dc_pc, lm_pc, estado_laser_a_anterior,
                   estado_laser_b_anterior, detectado, lm_t, aviso_timeout, web_pc,
                   web_usuario, web_respuesta, db_accesos, b_hist, aperturas,
                   incrementos, n_entradas, n_boton, bm_t, main_pc, login_attempts,
                   ahora, login_respuesta, ser_buf, linea, pt_pc, codigo_tarjeta,
                   pt_descartados>>

\* boton.wait_for_press(timeout=0.5) returns True while the button is pressed:
\* put the event, time.sleep(0.5), and wait again
BmPulsado ==
    /\ bm_pc = "espera"
    /\ boton
    /\ n_boton < MaxBoton
    /\ cola_eventos' = Append(cola_eventos, EvtBoton("fisico"))
    /\ n_boton' = n_boton + 1
    /\ UNCHANGED <<estado_sistema, cola_comandos, led_rojo, led_verde, s1, s2,
                   denegados, boton, laserA, laserB, sesiones, ev_pc, ev_usuario,
                   ev_tmp, dc_pc, bm_pc, lm_pc, estado_laser_a_anterior,
                   estado_laser_b_anterior, detectado, lm_t, aviso_timeout, web_pc,
                   web_usuario, web_respuesta, db_accesos, b_hist, aperturas,
                   incrementos, n_entradas, bm_t, main_pc, login_attempts, ahora,
                   login_respuesta, ser_buf, linea, pt_pc, codigo_tarjeta,
                   pt_descartados>>

\* -------------------------------------------- HILO 4: hilo_monitor_laseres
\* One pass of the loop samples laser A, then laser B, then polls cola_comandos and
\* sleeps 0.1 s.  A sample that finds no change and a poll that finds the queue empty
\* change nothing, so the loop is modelled by its three effective steps, each enabled
\* while the thread is in the loop (lm_pc = "bucle").

\* A variant of the sensor A sample that puts the event but forgets to remember the
\* sample.
MutLmLaserA ==
    /\ lm_pc = "bucle"
    /\ laserA # estado_laser_a_anterior
    /\ cola_eventos' = Append(cola_eventos, EvtLaser(laserA, "A"))
    /\ UNCHANGED <<estado_sistema, cola_comandos, led_rojo, led_verde, s1, s2,
                   denegados, boton, laserA, laserB, sesiones, ev_pc, ev_usuario,
                   ev_tmp, dc_pc, bm_pc, lm_pc, estado_laser_a_anterior,
                   estado_laser_b_anterior, detectado, lm_t, aviso_timeout, web_pc,
                   web_usuario, web_respuesta, db_accesos, b_hist, aperturas,
                   incrementos, n_entradas, n_boton, bm_t, main_pc, login_attempts,
                   ahora, login_respuesta, ser_buf, linea, pt_pc, codigo_tarjeta,
                   pt_descartados>>

\* laser_a_bloqueado = laserA.is_pressed; on a change put the event and remember it
LmLaserA ==
    /\ lm_pc = "bucle"
    /\ laserA # estado_laser_a_anterior
    /\ cola_eventos' = Append(cola_eventos, EvtLaser(laserA, "A"))
    /\ estado_laser_a_anterior' = laserA
    /\ UNCHANGED <<estado_sistema, cola_comandos, led_rojo, led_verde, s1, s2,
                   denegados, boton, laserA, laserB, sesiones, ev_pc, ev_usuario,
                   ev_tmp, dc_pc, bm_pc, lm_pc, estado_laser_b_anterior, detectado,
                   lm_t, aviso_timeout, web_pc, web_usuario, web_respuesta, db_accesos,
                   b_hist, aperturas, incrementos, n_entradas, n_boton, bm_t, main_pc,
                   login_attempts, ahora, login_respuesta, ser_buf, linea, pt_pc,
                   codigo_tarjeta, pt_descartados>>

\* laser_b_bloqueado = laserB.is_pressed; on a change put the event and remember it
LmLaserB ==
    /\ lm_pc = "bucle"
    /\ laserB # estado_laser_b_anterior
    /\ cola_eventos' = Append(cola_eventos, EvtLaser(laserB, "B"))
    /\ estado_laser_b_anterior' = laserB
    /\ UNCHANGED <<estado_sistema, cola_comandos, led_rojo, led_verde, s1, s2,
                   denegados, boton, laserA, laserB, sesiones, ev_pc, ev_usuario,
                   ev_tmp, dc_pc, bm_pc, lm_pc, estado_laser_a_anterior, detectado,
                   lm_t, aviso_timeout, web_pc, web_usuario, web_respuesta, db_accesos,
                   b_hist, aperturas, incrementos, n_entradas, n_boton, bm_t, main_pc,
                   login_attempts, ahora, login_respuesta, ser_buf, linea, pt_pc,
                   codigo_tarjeta, pt_descartados>>

\* if not cola_comandos_p2.empty(): comando = cola_comandos_p2.get_nowait();
\* accion esperar_paso: esperar_persona_paso(), which begins with
\* estado_sistema_p2["detectando_paso"] = True; timeout = time.time() + 15;
\* detectado = False.  A command with any other accion is dropped.
LmComando ==
    /\ lm_pc = "bucle"
    /\ cola_comandos # <<>>
    /\ cola_comandos' = Tail(cola_comandos)
    /\ IF Head(cola_comandos).accion = "esperar_paso"
         THEN /\ estado_sistema' = [estado_sistema EXCEPT !.detectando_paso = TRUE]
              /\ lm_t' = 0
              /\ detectado' = FALSE
              /\ aviso_timeout' = FALSE
              /\ b_hist' = "nada"
              /\ lm_pc' = "espera1"
         ELSE /\ estado_sistema' = estado_sistema
              /\ lm_t' = lm_t
              /\ detectado' = detectado
              /\ aviso_timeout' = aviso_timeout
              /\ b_hist' = b_hist
              /\ lm_pc' = lm_pc
    /\ UNCHANGED <<cola_eventos, led_rojo, led_verde, s1, s2, denegados, boton, laserA,
                   laserB, sesiones, ev_pc, ev_usuario, ev_tmp, dc_pc, bm_pc,
                   estado_laser_a_anterior, estado_laser_b_anterior, web_pc,
                   web_usuario, web_respuesta, db_accesos, aperturas, incrementos,
                   n_entradas, n_boton, bm_t, main_pc, login_attempts, ahora,
                   login_respuesta, ser_buf, linea, pt_pc, codigo_tarjeta,
                   pt_descartados>>

\* What a reading of sensor B adds to the history of the wait.
VerB(h, b) == IF b THEN "bloqueado" ELSE IF h = "bloqueado" THEN "libre" ELSE h

\* A variant of the first loop that polls sensor A where the code polls sensor B.
MutLmEspera1 ==
    /\ lm_pc = "espera1"
    /\ IF lm_t < TIMEOUT
         THEN /\ laserA
              /\ detectado' = TRUE
              /\ b_hist' = VerB(b_hist, laserB)
              /\ lm_pc' = "espera2"
              /\ aviso_timeout' = aviso_timeout
         ELSE /\ aviso_timeout' = TRUE
              /\ lm_pc' = "fin"
              /\ detectado' = detectado
              /\ b_hist' = b_hist
    /\ UNCHANGED <<estado_sistema, cola_eventos, cola_comandos, led_rojo, led_verde,
                   s1, s2, denegados, boton, laserA, laserB, sesiones, ev_pc,
                   ev_usuario, ev_tmp, dc_pc, bm_pc, estado_laser_a_anterior,
                   estado_laser_b_anterior, lm_t, web_pc, web_usuario, web_respuesta,
                   db_accesos, aperturas, incrementos, n_entradas, n_boton, bm_t,
                   main_pc, login_attempts, ahora, login_respuesta, ser_buf, linea,
                   pt_pc, codigo_tarjeta, pt_descartados>>

\* First loop of esperar_persona_paso:
\*   while time.time() < timeout:
\*       if laserB.is_pressed: detectado = True; break
\*       time.sleep(0.1)
\* If the loop ends by the deadline, detectado stays False and the else branch logs
\* logger.warning("Timeout: No se detecto paso en 15 segundos").
LmEspera1 ==
    /\ lm_pc = "espera1"
    /\ IF lm_t < TIMEOUT
         THEN /\ laserB
              /\ detectado' = TRUE
              /\ b_hist' = VerB(b_hist, laserB)
              /\ lm_pc' = "espera2"
              /\ aviso_timeout' = aviso_timeout
         ELSE /\ aviso_timeout' = TRUE
              /\ lm_pc' = "fin"
              /\ detectado' = detectado
              /\ b_hist' = b_hist
    /\ UNCHANGED <<estado_sistema, cola_eventos, cola_comandos, led_rojo, led_verde,
                   s1, s2, denegados, boton, laserA, laserB, sesiones, ev_pc,
                   ev_usuario, ev_tmp, dc_pc, bm_pc, estado_laser_a_anterior,
                   estado_laser_b_anterior, lm_t, web_pc, web_usuario, web_respuesta,
                   db_accesos, aperturas, incrementos, n_entradas, n_boton, bm_t,
                   main_pc, login_attempts, ahora, login_respuesta, ser_buf, linea,
                   pt_pc, codigo_tarjeta, pt_descartados>>

\* A variant of the second loop that forgets the deadline.
MutLmEspera2 ==
    /\ lm_pc = "espera2"
    /\ ~laserB
    /\ b_hist' = VerB(b_hist, laserB)
    /\ lm_pc' = "fin"
    /\ UNCHANGED <<estado_sistema, cola_eventos, cola_comandos, led_rojo, led_verde,
                   s1, s2, denegados, boton, laserA, laserB, sesiones, ev_pc,
                   ev_usuario, ev_tmp, dc_pc, bm_pc, estado_laser_a_anterior,
                   estado_laser_b_anterior, detectado, lm_t, aviso_timeout, web_pc,
                   web_usuario, web_respuesta, db_accesos, aperturas, incrementos,
                   n_entradas, n_boton, bm_t, main_pc, login_attempts, ahora,
                   login_respuesta, ser_buf, linea, pt_pc, codigo_tarjeta,
                   pt_descartados>>

\* Second loop: while laserB.is_pressed and time.time() < timeout: time.sleep(0.1)
\* then logger.info("Persona cruzo completamente"); time.sleep(1)
LmEspera2 ==
    /\ lm_pc = "espera2"
    /\ ~(laserB /\ lm_t < TIMEOUT)
    /\ b_hist' = VerB(b_hist, laserB)
    /\ lm_pc' = "fin"
    /\ UNCHANGED <<estado_sistema, cola_eventos, cola_comandos, led_rojo, led_verde,
                   s1, s2, denegados, boton, laserA, laserB, sesiones, ev_pc,
                   ev_usuario, ev_tmp, dc_pc, bm_pc, estado_laser_a_anterior,
                   estado_laser_b_anterior, detectado, lm_t, aviso_timeout, web_pc,
                   web_usuario, web_respuesta, db_accesos, aperturas, incrementos,
                   n_entradas, n_boton, bm_t, main_pc, login_attempts, ahora,
                   login_respuesta, ser_buf, linea, pt_pc, codigo_tarjeta,
                   pt_descartados>>

\* estado_sistema_p2["detectando_paso"] = False
LmEsperaFin ==
    /\ lm_pc = "fin"
    /\ estado_sistema' = [estado_sistema EXCEPT !.detectando_paso = FALSE]
    /\ lm_pc' = "put_cerrar"
    /\ UNCHANGED <<cola_eventos, cola_comandos, led_rojo, led_verde, s1, s2, denegados,
                   boton, laserA, laserB, sesiones, ev_pc, ev_usuario, ev_tmp, dc_pc,
                   bm_pc, estado_laser_a_anterior, estado_laser_b_anterior, detectado,
                   lm_t, aviso_timeout, web_pc, web_usuario, web_respuesta, db_accesos,
                   b_hist, aperturas, incrementos, n_entradas, n_boton, bm_t, main_pc,
                   login_attempts, ahora, login_respuesta, ser_buf, linea, pt_pc,
                   codigo_tarjeta, pt_descartados>>

\* cola_comandos_p2.put({'accion': 'cerrar_puertas'}); back to the loop
LmPutCerrar ==
    /\ lm_pc = "put_cerrar"
    /\ cola_comandos' = Append(cola_comandos, Cmd("cerrar_puertas"))
    /\ lm_pc' = "bucle"
    /\ UNCHANGED <<estado_sistema, cola_eventos, led_rojo, led_verde, s1, s2,
                   denegados, boton, laserA, laserB, sesiones, ev_pc, ev_usuario,
                   ev_tmp, dc_pc, bm_pc, estado_laser_a_anterior,
                   estado_laser_b_anterior, detectado, lm_t, aviso_timeout, web_pc,
                   web_usuario, web_respuesta, db_accesos, b_hist, aperturas,
                   incrementos, n_entradas, n_boton, bm_t, main_pc, login_attempts,
                   ahora, login_respuesta, ser_buf, linea, pt_pc, codigo_tarjeta,
                   pt_descartados>>

\* Paso seconds of the wait pass (time.time() as esperar_persona_paso reads it).
Tick ==
    /\ lm_pc \in {"espera1", "espera2"}
    /\ lm_t < TIMEOUT
    /\ lm_t' = lm_t + Paso
    /\ UNCHANGED <<estado_sistema, cola_eventos, cola_comandos, led_rojo, led_verde,
                   s1, s2, denegados, boton, laserA, laserB, sesiones, ev_pc,
                   ev_usuario, ev_tmp, dc_pc, bm_pc, lm_pc, estado_laser_a_anterior,
                   estado_laser_b_anterior, detectado, aviso_timeout, web_pc,
                   web_usuario, web_respuesta, db_accesos, b_hist, aperturas,
                   incrementos, n_entradas, n_boton, bm_t, main_pc, login_attempts,
                   ahora, login_respuesta, ser_buf, linea, pt_pc, codigo_tarjeta,
                   pt_descartados>>

\* ---------------------------------------------------------- the environment
\* The physical button is pressed ...
Pulsar ==
    /\ ~boton
    /\ n_entradas < MaxEntradas
    /\ n_boton < MaxBoton
    /\ boton' = TRUE
    /\ n_entradas' = n_entradas + 1
    /\ UNCHANGED <<estado_sistema, cola_eventos, cola_comandos, led_rojo, led_verde,
                   s1, s2, denegados, laserA, laserB, sesiones, ev_pc, ev_usuario,
                   ev_tmp, dc_pc, bm_pc, lm_pc, estado_laser_a_anterior,
                   estado_laser_b_anterior, detectado, lm_t, aviso_timeout, web_pc,
                   web_usuario, web_respuesta, db_accesos, b_hist, aperturas,
                   incrementos, n_boton, bm_t, main_pc, login_attempts, ahora,
                   login_respuesta, ser_buf, linea, pt_pc, codigo_tarjeta,
                   pt_descartados>>

\* ... and released.
Soltar ==
    /\ boton
    /\ boton' = FALSE
    /\ UNCHANGED <<estado_sistema, cola_eventos, cola_comandos, led_rojo, led_verde,
                   s1, s2, denegados, laserA, laserB, sesiones, ev_pc, ev_usuario,
                   ev_tmp, dc_pc, bm_pc, lm_pc, estado_laser_a_anterior,
                   estado_laser_b_anterior, detectado, lm_t, aviso_timeout, web_pc,
                   web_usuario, web_respuesta, db_accesos, b_hist, aperturas,
                   incrementos, n_entradas, n_boton, bm_t, main_pc, login_attempts,
                   ahora, login_respuesta, ser_buf, linea, pt_pc, codigo_tarjeta,
                   pt_descartados>>

\* Beam A is blocked or cleared.
CambiaLaserA ==
    /\ n_entradas < MaxEntradas
    /\ laserA' = ~laserA
    /\ n_entradas' = n_entradas + 1
    /\ UNCHANGED <<estado_sistema, cola_eventos, cola_comandos, led_rojo, led_verde,
                   s1, s2, denegados, boton, laserB, sesiones, ev_pc, ev_usuario,
                   ev_tmp, dc_pc, bm_pc, lm_pc, estado_laser_a_anterior,
                   estado_laser_b_anterior, detectado, lm_t, aviso_timeout, web_pc,
                   web_usuario, web_respuesta, db_accesos, b_hist, aperturas,
                   incrementos, n_boton, bm_t, main_pc, login_attempts, ahora,
                   login_respuesta, ser_buf, linea, pt_pc, codigo_tarjeta,
                   pt_descartados>>

\* Beam B is blocked or cleared.
CambiaLaserB ==
    /\ n_entradas < MaxEntradas
    /\ laserB' = ~laserB
    /\ n_entradas' = n_entradas + 1
    /\ UNCHANGED <<estado_sistema, cola_eventos, cola_comandos, led_rojo, led_verde,
                   s1, s2, denegados, boton, laserA, sesiones, ev_pc, ev_usuario,
                   ev_tmp, dc_pc, bm_pc, lm_pc, estado_laser_a_anterior,
                   estado_laser_b_anterior, detectado, lm_t, aviso_timeout, web_pc,
                   web_usuario, web_respuesta, db_accesos, b_hist, aperturas,
                   incrementos, n_boton, bm_t, main_pc, login_attempts, ahora,
                   login_respuesta, ser_buf, linea, pt_pc, codigo_tarjeta,
                   pt_descartados>>

\* --------------------------------------------------------- the Flask routes
\* username in login_attempts
Registrado(la, u) == la[u] # SinRegistro

\* The dict without the entry of u (del login_attempts[username]).
Borrar(la, u) == [la EXCEPT ![u] = SinRegistro]

\* The lockout of the record of u has run out:
\* datetime.now() - last_attempt > timedelta(minutes=config.LOCKOUT_DURATION)
Caducado(u) == ahora - login_attempts[u].last > LOCKOUT_DURATION

\* A variant of the check that locks only after more than MAX_LOGIN_ATTEMPTS
\* failures.
Mut_check_login_attempts(u) ==
    \/ ~Registrado(login_attempts, u)
    \/ Caducado(u)
    \/ ~(login_attempts[u].attempts > MAX_LOGIN_ATTEMPTS)

\* check_login_attempts(username), its result: True without a record, True (and
\* the record deleted) when the lockout has run out, False when attempts >=
\* MAX_LOGIN_ATTEMPTS, True otherwise.
check_login_attempts(u) ==
    \/ ~Registrado(login_attempts, u)
    \/ Caducado(u)
    \/ ~(login_attempts[u].attempts >= MAX_LOGIN_ATTEMPTS)

\* check_login_attempts(username), its effect: the record that has run out is deleted.
TrasCheck(u) ==
    IF Registrado(login_attempts, u) /\ Caducado(u)
      THEN Borrar(login_attempts, u)
      ELSE login_attempts

\* register_failed_attempt(username) on the dict la
register_failed_attempt(la, u) ==
    IF ~Registrado(la, u)
      THEN [la EXCEPT ![u] = [attempts |-> 1, last |-> ahora]]
      ELSE [la EXCEPT ![u] = [attempts |-> la[u].attempts + 1, last |-> ahora]]

\* login() for username u, not locked, credentials accepted:
\* del login_attempts[username]; session['username'] = username;
\* estado_sistema["boton_habilitado"] = True
LoginExitoso(u) ==
    /\ web_pc = "idle"
    /\ n_entradas < MaxEntradas
    /\ check_login_attempts(u)
    /\ login_attempts' = Borrar(login_attempts, u)
    /\ sesiones' = sesiones \cup {u}
    /\ web_usuario' = u
    /\ estado_sistema' = [estado_sistema EXCEPT !.boton_habilitado = TRUE]
    /\ login_respuesta' = 200
    /\ n_entradas' = n_entradas + 1
    /\ web_pc' = "login_usuario"
    /\ UNCHANGED <<cola_eventos, cola_comandos, led_rojo, led_verde, s1, s2, denegados,
                   boton, laserA, laserB, ev_pc, ev_usuario, ev_tmp, dc_pc, bm_pc,
                   lm_pc, estado_laser_a_anterior, estado_laser_b_anterior, detectado,
                   lm_t, aviso_timeout, web_respuesta, db_accesos, b_hist, aperturas,
                   incrementos, n_boton, bm_t, main_pc, ahora, ser_buf, linea, pt_pc,
                   codigo_tarjeta, pt_descartados>>

WebLogin == \E u \in Usuarios : LoginExitoso(u)

\* login() for username u, not locked, credentials refused (wrong password, or a
\* username USUARIOS does not have): register_failed_attempt(username); 401
LoginFallido(u) ==
    /\ web_pc = "idle"
    /\ check_login_attempts(u)
    /\ login_attempts' = register_failed_attempt(TrasCheck(u), u)
    /\ login_respuesta' = 401
    /\ UNCHANGED <<estado_sistema, cola_eventos, cola_comandos, led_rojo, led_verde,
                   s1, s2, denegados, boton, laserA, laserB, sesiones, ev_pc,
                   ev_usuario, ev_tmp, dc_pc, bm_pc, lm_pc, estado_laser_a_anterior,
                   estado_laser_b_anterior, detectado, lm_t, aviso_timeout, web_pc,
                   web_usuario, web_respuesta, db_accesos, b_hist, aperturas,
                   incrementos, n_entradas, n_boton, bm_t, main_pc, ahora, ser_buf,
                   linea, pt_pc, codigo_tarjeta, pt_descartados>>

\* login() for username u while check_login_attempts(username) is False: 403
LoginBloqueado(u) ==
    /\ web_pc = "idle"
    /\ ~check_login_attempts(u)
    /\ login_respuesta' = 403
    /\ UNCHANGED <<estado_sistema, cola_eventos, cola_comandos, led_rojo, led_verde,
                   s1, s2, denegados, boton, laserA, laserB, sesiones, ev_pc,
                   ev_usuario, ev_tmp, dc_pc, bm_pc, lm_pc, estado_laser_a_anterior,
                   estado_laser_b_anterior, detectado, lm_t, aviso_timeout, web_pc,
                   web_usuario, web_respuesta, db_accesos, b_hist, aperturas,
                   incrementos, n_entradas, n_boton, bm_t, main_pc, login_attempts,
                   ahora, ser_buf, linea, pt_pc, codigo_tarjeta, pt_descartados>>

\* login() without username or without password: 400, before any check
LoginSinDatos ==
    /\ web_pc = "idle"
    /\ login_respuesta' = 400
    /\ UNCHANGED <<estado_sistema, cola_eventos, cola_comandos, led_rojo, led_verde,
                   s1, s2, denegados, boton, laserA, laserB, sesiones, ev_pc,
                   ev_usuario, ev_tmp, dc_pc, bm_pc, lm_pc, estado_laser_a_anterior,
                   estado_laser_b_anterior, detectado, lm_t, aviso_timeout, web_pc,
                   web_usuario, web_respuesta, db_accesos, b_hist, aperturas,
                   incrementos, n_entradas, n_boton, bm_t, main_pc, login_attempts,
                   ahora, ser_buf, linea, pt_pc, codigo_tarjeta, pt_descartados>>

\* The clock of datetime.now() advances.
PasaTiempo ==
    /\ ahora < MaxReloj
    /\ ahora' = ahora + PasoReloj
    /\ UNCHANGED <<estado_sistema, cola_eventos, cola_comandos, led_rojo, led_verde,
                   s1, s2, denegados, boton, laserA, laserB, sesiones, ev_pc,
                   ev_usuario, ev_tmp, dc_pc, bm_pc, lm_pc, estado_laser_a_anterior,
                   estado_laser_b_anterior, detectado, lm_t, aviso_timeout, web_pc,
                   web_usuario, web_respuesta, db_accesos, b_hist, aperturas,
                   incrementos, n_entradas, n_boton, bm_t, main_pc, login_attempts,
                   login_respuesta, ser_buf, linea, pt_pc, codigo_tarjeta,
                   pt_descartados>>

\* estado_sistema["usuario_actual"] = usuario['nombre']; mostrar_lcd("Login exitoso", ...);
\* time.sleep(1); mostrar_lcd("Pulsa boton", "Para acceder"); return
WebLoginUsuario ==
    /\ web_pc = "login_usuario"
    /\ estado_sistema' = [estado_sistema EXCEPT !.usuario_actual = Nombre(web_usuario)]
    /\ web_pc' = "idle"
    /\ web_usuario' = None
    /\ UNCHANGED <<cola_eventos, cola_comandos, led_rojo, led_verde, s1, s2, denegados,
                   boton, laserA, laserB, sesiones, ev_pc, ev_usuario, ev_tmp, dc_pc,
                   bm_pc, lm_pc, estado_laser_a_anterior, estado_laser_b_anterior,
                   detectado, lm_t, aviso_timeout, web_respuesta, db_accesos, b_hist,
                   aperturas, incrementos, n_entradas, n_boton, bm_t, main_pc,
                   login_attempts, ahora, login_respuesta, ser_buf, linea, pt_pc,
                   codigo_tarjeta, pt_descartados>>

\* A variant of logout that also orders the door closed.
MutWebLogout ==
    /\ web_pc = "idle"
    /\ \E u \in sesiones :
         /\ sesiones' = sesiones \ {u}
         /\ web_usuario' = u
    /\ estado_sistema' = [estado_sistema EXCEPT !.boton_habilitado = FALSE]
    /\ cola_comandos' = Append(cola_comandos, Cmd("cerrar_puertas"))
    /\ web_pc' = "logout_usuario"
    /\ UNCHANGED <<cola_eventos, led_rojo, led_verde, s1, s2, denegados, boton, laserA,
                   laserB, ev_pc, ev_usuario, ev_tmp, dc_pc, bm_pc, lm_pc,
                   estado_laser_a_anterior, estado_laser_b_anterior, detectado, lm_t,
                   aviso_timeout, web_respuesta, db_accesos, b_hist, aperturas,
                   incrementos, n_entradas, n_boton, bm_t, main_pc, login_attempts,
                   ahora, login_respuesta, ser_buf, linea, pt_pc, codigo_tarjeta,
                   pt_descartados>>

\* logout() (@login_required): session.clear(); estado_sistema["boton_habilitado"] = False
WebLogout ==
    /\ web_pc = "idle"
    /\ \E u \in sesiones :
         /\ sesiones' = sesiones \ {u}
         /\ web_usuario' = u
    /\ estado_sistema' = [estado_sistema EXCEPT !.boton_habilitado = FALSE]
    /\ web_pc' = "logout_usuario"
    /\ UNCHANGED <<cola_eventos, cola_comandos, led_rojo, led_verde, s1, s2, denegados,
                   boton, laserA, laserB, ev_pc, ev_usuario, ev_tmp, dc_pc, bm_pc,
                   lm_pc, estado_laser_a_anterior, estado_laser_b_anterior, detectado,
                   lm_t, aviso_timeout, web_respuesta, db_accesos, b_hist, aperturas,
                   incrementos, n_entradas, n_boton, bm_t, main_pc, login_attempts,
                   ahora, login_respuesta, ser_buf, linea, pt_pc, codigo_tarjeta,
                   pt_descartados>>

\* estado_sistema["usuario_actual"] = None; mostrar_lcd("Sesion cerrada", "Hasta pronto");
\* time.sleep(1); mostrar_lcd("Login en Web", "Para acceder"); return
WebLogoutUsuario ==
    /\ web_pc = "logout_usuario"
    /\ estado_sistema' = [estado_sistema EXCEPT !.usuario_actual = None]
    /\ web_pc' = "idle"
    /\ web_usuario' = None
    /\ UNCHANGED <<cola_eventos, cola_comandos, led_rojo, led_verde, s1, s2, denegados,
                   boton, laserA, laserB, sesiones, ev_pc, ev_usuario, ev_tmp, dc_pc,
                   bm_pc, lm_pc, estado_laser_a_anterior, estado_laser_b_anterior,
                   detectado, lm_t, aviso_timeout, web_respuesta, db_accesos, b_hist,
                   aperturas, incrementos, n_entradas, n_boton, bm_t, main_pc,
                   login_attempts, ahora, login_respuesta, ser_buf, linea, pt_pc,
                   codigo_tarjeta, pt_descartados>>

\* A variant of the reset that also marks the door closed.
MutWebReiniciar ==
    /\ web_pc = "idle"
    /\ n_entradas < MaxEntradas
    /\ \E u \in sesiones : Rol(u) = "admin"
    /\ estado_sistema' = [estado_sistema EXCEPT !.total_accesos = 0,
                                                !.estado_puerta = "CERRADA"]
    /\ aperturas' = 0
    /\ incrementos' = 0
    /\ n_entradas' = n_entradas + 1
    /\ web_pc' = "reset_personas"
    /\ UNCHANGED <<cola_eventos, cola_comandos, led_rojo, led_verde, s1, s2, denegados,
                   boton, laserA, laserB, sesiones, ev_pc, ev_usuario, ev_tmp, dc_pc,
                   bm_pc, lm_pc, estado_laser_a_anterior, estado_laser_b_anterior,
                   detectado, lm_t, aviso_timeout, web_usuario, web_respuesta,
                   db_accesos, b_hist, n_boton, bm_t, main_pc, login_attempts, ahora,
                   login_respuesta, ser_buf, linea, pt_pc, codigo_tarjeta,
                   pt_descartados>>

\* reiniciar_estadisticas() (@admin_required): estado_sistema["total_accesos"] = 0
WebReiniciar ==
    /\ web_pc = "idle"
    /\ n_entradas < MaxEntradas
    /\ \E u \in sesiones : Rol(u) = "admin"
    /\ estado_sistema' = [estado_sistema EXCEPT !.total_accesos = 0]
    /\ aperturas' = 0
    /\ incrementos' = 0
    /\ n_entradas' = n_entradas + 1
    /\ web_pc' = "reset_personas"
    /\ UNCHANGED <<cola_eventos, cola_comandos, led_rojo, led_verde, s1, s2, denegados,
                   boton, laserA, laserB, sesiones, ev_pc, ev_usuario, ev_tmp, dc_pc,
                   bm_pc, lm_pc, estado_laser_a_anterior, estado_laser_b_anterior,
                   detectado, lm_t, aviso_timeout, web_usuario, web_respuesta,
                   db_accesos, b_hist, n_boton, bm_t, main_pc, login_attempts, ahora,
                   login_respuesta, ser_buf, linea, pt_pc, codigo_tarjeta,
                   pt_descartados>>

\* estado_sistema["personas_dentro"] = 0; return
WebReiniciarPersonas ==
    /\ web_pc = "reset_personas"
    /\ estado_sistema' = [estado_sistema EXCEPT !.personas_dentro = 0]
    /\ web_pc' = "idle"
    /\ UNCHANGED <<cola_eventos, cola_comandos, led_rojo, led_verde, s1, s2, denegados,
                   boton, laserA, laserB, sesiones, ev_pc, ev_usuario, ev_tmp, dc_pc,
                   bm_pc, lm_pc, estado_laser_a_anterior, estado_laser_b_anterior,
                   detectado, lm_t, aviso_timeout, web_usuario, web_respuesta,
                   db_accesos, b_hist, aperturas, incrementos, n_entradas, n_boton,
                   bm_t, main_pc, login_attempts, ahora, login_respuesta, ser_buf,
                   linea, pt_pc, codigo_tarjeta, pt_descartados>>

\* A variant of the web trigger that does not test boton_habilitado.
MutWebSimular ==
    /\ web_pc = "idle"
    /\ sesiones # {}
    /\ ~estado_sistema.detectando_paso
    /\ n_entradas < MaxEntradas
    /\ n_boton < MaxBoton
    /\ cola_eventos' = Append(cola_eventos, EvtBoton("web"))
    /\ web_respuesta' = 200
    /\ n_boton' = n_boton + 1
    /\ n_entradas' = n_entradas + 1
    /\ UNCHANGED <<estado_sistema, cola_comandos, led_rojo, led_verde, s1, s2,
                   denegados, boton, laserA, laserB, sesiones, ev_pc, ev_usuario,
                   ev_tmp, dc_pc, bm_pc, lm_pc, estado_laser_a_anterior,
                   estado_laser_b_anterior, detectado, lm_t, aviso_timeout, web_pc,
                   web_usuario, db_accesos, b_hist, aperturas, incrementos, bm_t,
                   main_pc, login_attempts, ahora, login_respuesta, ser_buf, linea,
                   pt_pc, codigo_tarjeta, pt_descartados>>

\* simular_acceso_manual() (@login_required), first branch:
\* not detectando_paso and boton_habilitado: put the web button event
WebSimular ==
    /\ web_pc = "idle"
    /\ sesiones # {}
    /\ ~estado_sistema.detectando_paso /\ estado_sistema.boton_habilitado
    /\ n_entradas < MaxEntradas
    /\ n_boton < MaxBoton
    /\ cola_eventos' = Append(cola_eventos, EvtBoton("web"))
    /\ web_respuesta' = 200
    /\ n_boton' = n_boton + 1
    /\ n_entradas' = n_entradas + 1
    /\ UNCHANGED <<estado_sistema, cola_comandos, led_rojo, led_verde, s1, s2,
                   denegados, boton, laserA, laserB, sesiones, ev_pc, ev_usuario,
                   ev_tmp, dc_pc, bm_pc, lm_pc, estado_laser_a_anterior,
                   estado_laser_b_anterior, detectado, lm_t, aviso_timeout, web_pc,
                   web_usuario, db_accesos, b_hist, aperturas, incrementos, bm_t,
                   main_pc, login_attempts, ahora, login_respuesta, ser_buf, linea,
                   pt_pc, codigo_tarjeta, pt_descartados>>

\* The answer simular_acceso_manual gives in the current state: 401 from
\* login_required without a session, 200 when the event is put, 403 when
\* boton_habilitado is false, 409 otherwise (a crossing wait is running).
RespuestaSimular ==
    IF sesiones = {} THEN 401
    ELSE IF ~estado_sistema.detectando_paso /\ estado_sistema.boton_habilitado THEN 200
    ELSE IF ~estado_sistema.boton_habilitado THEN 403
    ELSE 409

\* simular_acceso_manual(), the refused request: nothing is put and nothing written.
WebSimularRechazado ==
    /\ web_pc = "idle"
    /\ RespuestaSimular # 200
    /\ n_entradas < MaxEntradas
    /\ web_respuesta' = RespuestaSimular
    /\ n_entradas' = n_entradas + 1
    /\ UNCHANGED <<estado_sistema, cola_eventos, cola_comandos, led_rojo, led_verde,
                   s1, s2, denegados, boton, laserA, laserB, sesiones, ev_pc,
                   ev_usuario, ev_tmp, dc_pc, bm_pc, lm_pc, estado_laser_a_anterior,
                   estado_laser_b_anterior, detectado, lm_t, aviso_timeout, web_pc,
                   web_usuario, db_accesos, b_hist, aperturas, incrementos, n_boton,
                   bm_t, main_pc, login_attempts, ahora, login_respuesta, ser_buf,
                   linea, pt_pc, codigo_tarjeta, pt_descartados>>

\* ------------------------------------------------------------ specification
\* Every step but the start-up step of the button monitor.
Servicio ==
    \/ EvBoton \/ EvLeerUsuario \/ EvTotalLeer \/ EvTotalEscribir
    \/ EvPersonasLeer \/ EvPersonasEscribir \/ EvUltimoAcceso \/ EvPutAbrir
    \/ EvPutEsperar \/ EvLaser
    \/ DcTomar \/ DcAbrirEstado \/ DcCerrarEstado \/ DcCerrarBoton \/ DcCerrarUsuario
    \/ BmPulsado
    \/ LmLaserA \/ LmLaserB \/ LmComando \/ LmEspera1 \/ LmEspera2 \/ LmEsperaFin
    \/ LmPutCerrar \/ Tick
    \/ Pulsar \/ Soltar \/ CambiaLaserA \/ CambiaLaserB
    \/ WebLogin \/ WebLoginUsuario \/ WebLogout \/ WebLogoutUsuario
    \/ WebReiniciar \/ WebReiniciarPersonas \/ WebSimular \/ WebSimularRechazado

Next == BmInicializar \/ Servicio

\* The system from its construction.
Spec == Init /\ [][Next]_vars

\* The system in service: started, the 'inicializar' command executed by the door
\* controller, and one user logged in.  Spec reaches this state by BmInicializar,
\* DcTomar, DcCerrarEstado, DcCerrarBoton, DcCerrarUsuario, WebLogin, WebLoginUsuario;
\* here the login is not counted among the inputs.
InitServicio ==
    /\ \E u \in Usuarios :
         /\ estado_sistema = [estado_puerta |-> "CERRADA",
                              total_accesos |-> 0,
                              personas_dentro |-> 0,
                              detectando_paso |-> FALSE,
                              boton_habilitado |-> TRUE,
                              usuario_actual |-> Nombre(u),
                              ultimo_acceso |-> None,
                              laser_a_bloqueado |-> FALSE,
                              laser_b_bloqueado |-> FALSE]
         /\ sesiones = {u}
    /\ cola_eventos = <<>>
    /\ cola_comandos = <<>>
    /\ led_rojo = TRUE /\ led_verde = FALSE
    /\ s1 = 0 /\ s2 = 180
    /\ denegados = 0
    /\ boton = FALSE /\ laserA = FALSE /\ laserB = FALSE
    /\ ev_pc = "idle" /\ ev_usuario = None /\ ev_tmp = 0
    /\ dc_pc = "idle"
    /\ bm_pc = "espera"
    /\ lm_pc = "bucle"
    /\ estado_laser_a_anterior = FALSE /\ estado_laser_b_anterior = FALSE
    /\ detectado = FALSE /\ lm_t = 0 /\ aviso_timeout = FALSE
    /\ web_pc = "idle" /\ web_usuario = None
    /\ web_respuesta = 0
    /\ db_accesos = {}
    /\ b_hist = "nada"
    /\ aperturas = 0 /\ incrementos = 0
    /\ n_entradas = 0 /\ n_boton = 0
    /\ bm_t = 0
    /\ main_pc = "servidor"
    /\ login_attempts = [u \in Nombres |-> SinRegistro]
    /\ ahora = 0
    /\ login_respuesta = 200
    /\ ser_buf = <<>> /\ linea = <<>>
    /\ pt_pc = "inicio"
    /\ codigo_tarjeta = <<>>
    /\ pt_descartados = 0

SpecServicio == InitServicio /\ [][Servicio]_vars

\* ======================================================================
\* The sensor process and the event processor in detail
\* ======================================================================
\* In Spec the button monitor's put and the sleep that follows it are the single
\* step BmPulsado.  Here the sleep is a state of its own, with a clock, so that the
\* distance between two events can be told.

\* boton.wait_for_press(timeout=0.5) returned True: put the event; time.sleep(0.5)
\* begins
BmEmitir ==
    /\ bm_pc = "espera"
    /\ boton
    /\ n_boton < MaxBoton
    /\ cola_eventos' = Append(cola_eventos, EvtBoton("fisico"))
    /\ n_boton' = n_boton + 1
    /\ bm_pc' = "debounce"
    /\ bm_t' = 0
    /\ UNCHANGED <<estado_sistema, cola_comandos, led_rojo, led_verde, s1, s2,
                   denegados, boton, laserA, laserB, sesiones, ev_pc, ev_usuario,
                   ev_tmp, dc_pc, lm_pc, estado_laser_a_anterior,
                   estado_laser_b_anterior, detectado, lm_t, aviso_timeout, web_pc,
                   web_usuario, web_respuesta, db_accesos, b_hist, aperturas,
                   incrementos, n_entradas, main_pc, login_attempts, ahora,
                   login_respuesta, ser_buf, linea, pt_pc, codigo_tarjeta,
                   pt_descartados>>

\* time passes during time.sleep(0.5)
BmTick ==
    /\ bm_pc = "debounce"
    /\ bm_t < QUIETO
    /\ bm_t' = bm_t + PasoBoton
    /\ UNCHANGED <<estado_sistema, cola_eventos, cola_comandos, led_rojo, led_verde,
                   s1, s2, denegados, boton, laserA, laserB, sesiones, ev_pc,
                   ev_usuario, ev_tmp, dc_pc, bm_pc, lm_pc, estado_laser_a_anterior,
                   estado_laser_b_anterior, detectado, lm_t, aviso_timeout, web_pc,
                   web_usuario, web_respuesta, db_accesos, b_hist, aperturas,
                   incrementos, n_entradas, n_boton, main_pc, login_attempts, ahora,
                   login_respuesta, ser_buf, linea, pt_pc, codigo_tarjeta,
                   pt_descartados>>

\* A variant of the end of the sleep that does not wait for the time to pass.
MutBmDebounceFin ==
    /\ bm_pc = "debounce"
    /\ bm_pc' = "espera"
    /\ UNCHANGED <<estado_sistema, cola_eventos, cola_comandos, led_rojo, led_verde,
                   s1, s2, denegados, boton, laserA, laserB, sesiones, ev_pc,
                   ev_usuario, ev_tmp, dc_pc, lm_pc, estado_laser_a_anterior,
                   estado_laser_b_anterior, detectado, lm_t, aviso_timeout, web_pc,
                   web_usuario, web_respuesta, db_accesos, b_hist, aperturas,
                   incrementos, n_entradas, n_boton, bm_t, main_pc, login_attempts,
                   ahora, login_respuesta, ser_buf, linea, pt_pc, codigo_tarjeta,
                   pt_descartados>>

\* time.sleep(0.5) returns; the loop waits for the button again
BmDebounceFin ==
    /\ bm_pc = "debounce"
    /\ bm_t >= QUIETO
    /\ bm_pc' = "espera"
    /\ UNCHANGED <<estado_sistema, cola_eventos, cola_comandos, led_rojo, led_verde,
                   s1, s2, denegados, boton, laserA, laserB, sesiones, ev_pc,
                   ev_usuario, ev_tmp, dc_pc, lm_pc, estado_laser_a_anterior,
                   estado_laser_b_anterior, detectado, lm_t, aviso_timeout, web_pc,
                   web_usuario, web_respuesta, db_accesos, b_hist, aperturas,
                   incrementos, n_entradas, n_boton, bm_t, main_pc, login_attempts,
                   ahora, login_respuesta, ser_buf, linea, pt_pc, codigo_tarjeta,
                   pt_descartados>>

\* Events no producer of the program sends: no 'tipo', an unknown 'tipo', a laser
\* event without 'laser', a laser event of a sensor that does not exist.
EventosMalformados ==
    {[tipo |-> None, laser |-> None, origen |-> None],
     [tipo |-> "desconocido", laser |-> None, origen |-> None],
     [tipo |-> "laser_bloqueado", laser |-> None, origen |-> None],
     [tipo |-> "laser_bloqueado", laser |-> "C", origen |-> None]}

\* A malformed event arrives on cola_eventos.
InyectaEvento ==
    /\ n_entradas < MaxEntradas
    /\ \E e \in EventosMalformados : cola_eventos' = Append(cola_eventos, e)
    /\ n_entradas' = n_entradas + 1
    /\ UNCHANGED <<estado_sistema, cola_comandos, led_rojo, led_verde, s1, s2,
                   denegados, boton, laserA, laserB, sesiones, ev_pc, ev_usuario,
                   ev_tmp, dc_pc, bm_pc, lm_pc, estado_laser_a_anterior,
                   estado_laser_b_anterior, detectado, lm_t, aviso_timeout, web_pc,
                   web_usuario, web_respuesta, db_accesos, b_hist, aperturas,
                   incrementos, n_boton, bm_t, main_pc, login_attempts, ahora,
                   login_respuesta, ser_buf, linea, pt_pc, codigo_tarjeta,
                   pt_descartados>>

\* hilo_procesador_eventos takes an event it has no branch for, or whose
\* evento['tipo'] or evento['laser'] raises KeyError: the except clause logs the
\* error (an unknown tipo is passed over without a log line) and the loop goes on.
EvDescarta ==
    /\ ev_pc = "idle"
    /\ cola_eventos # <<>>
    /\ LET e == Head(cola_eventos)
       IN \/ e.tipo \notin {"boton_presionado", "laser_bloqueado", "laser_libre"}
          \/ e.tipo \in {"laser_bloqueado", "laser_libre"} /\ e.laser = None
    /\ cola_eventos' = Tail(cola_eventos)
    /\ UNCHANGED <<estado_sistema, cola_comandos, led_rojo, led_verde, s1, s2,
                   denegados, boton, laserA, laserB, sesiones, ev_pc, ev_usuario,
                   ev_tmp, dc_pc, bm_pc, lm_pc, estado_laser_a_anterior,
                   estado_laser_b_anterior, detectado, lm_t, aviso_timeout, web_pc,
                   web_usuario, web_respuesta, db_accesos, b_hist, aperturas,
                   incrementos, n_entradas, n_boton, bm_t, main_pc, login_attempts,
                   ahora, login_respuesta, ser_buf, linea, pt_pc, codigo_tarjeta,
                   pt_descartados>>

NextSensores ==
    \/ BmInicializar \/ BmEmitir \/ BmTick \/ BmDebounceFin
    \/ Pulsar \/ Soltar \/ CambiaLaserA \/ CambiaLaserB
    \/ LmLaserA \/ LmLaserB
    \/ InyectaEvento \/ EvBoton \/ EvLaser \/ EvDescarta
    \/ DcTomar \/ DcCerrarEstado \/ DcCerrarBoton \/ DcCerrarUsuario

\* The sensor process, the event processor and the door controller with nobody
\* logged in, the button monitor's sleep timed, and malformed events arriving.
SpecSensores == Init /\ [][NextSensores]_vars

\* ======================================================================
\* One user logged in: web triggers and crossings, without further sessions
\* ======================================================================
\* The steps of a granted access.
PasosAcceso ==
    \/ EvLeerUsuario \/ EvTotalLeer \/ EvTotalEscribir \/ EvPersonasLeer
    \/ EvPersonasEscribir \/ EvPutAbrir \/ EvPutEsperar

\* The steps inside abrir_puertas, cerrar_puertas and esperar_persona_paso.
PasosEnCurso ==
    \/ DcAbrirEstado \/ DcCerrarEstado \/ DcCerrarBoton \/ DcCerrarUsuario
    \/ LmEspera1 \/ LmEspera2 \/ LmEsperaFin \/ LmPutCerrar \/ Tick

\* The steps by which a loop takes new work, and the inputs.
PasosNuevos ==
    \/ WebSimular \/ CambiaLaserB
    \/ EvBoton \/ EvLaser \/ DcTomar \/ LmLaserB \/ LmComando

NextEspera == PasosNuevos \/ PasosAcceso \/ EvUltimoAcceso \/ PasosEnCurso

\* Threads that can run do run, and time passes during a wait.
SpecEspera ==
    /\ InitServicio
    /\ [][NextEspera]_vars
    /\ WF_vars(Tick)
    /\ WF_vars(LmEspera1) /\ WF_vars(LmEspera2)
    /\ WF_vars(LmEsperaFin) /\ WF_vars(LmPutCerrar)

\* ----------------------------------------------------------------- failures
\* cerrar_puertas: led_verde.off(), led_rojo.on(), s1.angle = 0 or s2.angle = 180
\* raises.  These calls come before the writes to estado_sistema; the exception
\* leaves cerrar_puertas and is caught and logged by hilo_control_puertas.
DcCerrarFalla ==
    /\ dc_pc = "cerrar_estado"
    /\ n_entradas < MaxEntradas
    /\ n_entradas' = n_entradas + 1
    /\ dc_pc' = "idle"
    /\ UNCHANGED <<estado_sistema, cola_eventos, cola_comandos, led_rojo, led_verde,
                   s1, s2, denegados, boton, laserA, laserB, sesiones, ev_pc,
                   ev_usuario, ev_tmp, bm_pc, lm_pc, estado_laser_a_anterior,
                   estado_laser_b_anterior, detectado, lm_t, aviso_timeout, web_pc,
                   web_usuario, web_respuesta, db_accesos, b_hist, aperturas,
                   incrementos, n_boton, bm_t, main_pc, login_attempts, ahora,
                   login_respuesta, ser_buf, linea, pt_pc, codigo_tarjeta,
                   pt_descartados>>

\* abrir_puertas: s1.angle = 90 raises, after estado_puerta was written.
DcAbrirFalla ==
    /\ dc_pc = "abrir_estado"
    /\ n_entradas < MaxEntradas
    /\ n_entradas' = n_entradas + 1
    /\ estado_sistema' = [estado_sistema EXCEPT !.estado_puerta = "ABIERTA"]
    /\ dc_pc' = "idle"
    /\ UNCHANGED <<cola_eventos, cola_comandos, led_rojo, led_verde, s1, s2, denegados,
                   boton, laserA, laserB, sesiones, ev_pc, ev_usuario, ev_tmp, bm_pc,
                   lm_pc, estado_laser_a_anterior, estado_laser_b_anterior, detectado,
                   lm_t, aviso_timeout, web_pc, web_usuario, web_respuesta, db_accesos,
                   b_hist, aperturas, incrementos, n_boton, bm_t, main_pc,
                   login_attempts, ahora, login_respuesta, ser_buf, linea, pt_pc,
                   codigo_tarjeta, pt_descartados>>

\* A variant in which the failed telemetry write aborts the grant.
MutEvUltimoAccesoFallo ==
    /\ ev_pc = "ultimo"
    /\ estado_sistema' = [estado_sistema EXCEPT !.ultimo_acceso = ev_usuario]
    /\ ev_pc' = "idle"
    /\ UNCHANGED <<cola_eventos, cola_comandos, led_rojo, led_verde, s1, s2, denegados,
                   boton, laserA, laserB, sesiones, ev_usuario, ev_tmp, dc_pc, bm_pc,
                   lm_pc, estado_laser_a_anterior, estado_laser_b_anterior, detectado,
                   lm_t, aviso_timeout, web_pc, web_usuario, web_respuesta, db_accesos,
                   b_hist, aperturas, incrementos, n_entradas, n_boton, bm_t, main_pc,
                   login_attempts, ahora, login_respuesta, ser_buf, linea, pt_pc,
                   codigo_tarjeta, pt_descartados>>

\* estado_sistema["ultimo_acceso"] = {...}; db_handler.write_access_event(...) finds no
\* client, or its write raises: it logs and returns False, nothing is stored.
EvUltimoAccesoFallo ==
    /\ ev_pc = "ultimo"
    /\ estado_sistema' = [estado_sistema EXCEPT !.ultimo_acceso = ev_usuario]
    /\ ev_pc' = "put_abrir"
    /\ UNCHANGED <<cola_eventos, cola_comandos, led_rojo, led_verde, s1, s2, denegados,
                   boton, laserA, laserB, sesiones, ev_usuario, ev_tmp, dc_pc, bm_pc,
                   lm_pc, estado_laser_a_anterior, estado_laser_b_anterior, detectado,
                   lm_t, aviso_timeout, web_pc, web_usuario, web_respuesta, db_accesos,
                   b_hist, aperturas, incrementos, n_entradas, n_boton, bm_t, main_pc,
                   login_attempts, ahora, login_respuesta, ser_buf, linea, pt_pc,
                   codigo_tarjeta, pt_descartados>>

NextFallos ==
    \/ NextEspera
    \/ DcCerrarFalla \/ DcAbrirFalla \/ EvUltimoAccesoFallo

\* The same system with actuator calls and telemetry writes that can fail.
SpecFallos == InitServicio /\ [][NextFallos]_vars

\* ----------------------------------------------------------------- shutdown
\* sistema_activo.value == 1
sistema_activo == main_pc = "servidor"

\* finally: sistema_activo.value = 0; proceso_sensores.join(timeout=5) begins
Apagar ==
    /\ main_pc = "servidor"
    /\ main_pc' = "join"
    /\ UNCHANGED <<estado_sistema, cola_eventos, cola_comandos, led_rojo, led_verde,
                   s1, s2, denegados, boton, laserA, laserB, sesiones, ev_pc,
                   ev_usuario, ev_tmp, dc_pc, bm_pc, lm_pc, estado_laser_a_anterior,
                   estado_laser_b_anterior, detectado, lm_t, aviso_timeout, web_pc,
                   web_usuario, web_respuesta, db_accesos, b_hist, aperturas,
                   incrementos, n_entradas, n_boton, bm_t, login_attempts, ahora,
                   login_respuesta, ser_buf, linea, pt_pc, codigo_tarjeta,
                   pt_descartados>>

\* while sistema_activo.value == 1 is false at the top of a loop: the thread ends
EvSalir ==
    /\ ~sistema_activo
    /\ ev_pc = "idle"
    /\ ev_pc' = "fin_hilo"
    /\ UNCHANGED <<estado_sistema, cola_eventos, cola_comandos, led_rojo, led_verde,
                   s1, s2, denegados, boton, laserA, laserB, sesiones, ev_usuario,
                   ev_tmp, dc_pc, bm_pc, lm_pc, estado_laser_a_anterior,
                   estado_laser_b_anterior, detectado, lm_t, aviso_timeout, web_pc,
                   web_usuario, web_respuesta, db_accesos, b_hist, aperturas,
                   incrementos, n_entradas, n_boton, bm_t, main_pc, login_attempts,
                   ahora, login_respuesta, ser_buf, linea, pt_pc, codigo_tarjeta,
                   pt_descartados>>

DcSalir ==
    /\ ~sistema_activo
    /\ dc_pc = "idle"
    /\ dc_pc' = "fin_hilo"
    /\ UNCHANGED <<estado_sistema, cola_eventos, cola_comandos, led_rojo, led_verde,
                   s1, s2, denegados, boton, laserA, laserB, sesiones, ev_pc,
                   ev_usuario, ev_tmp, bm_pc, lm_pc, estado_laser_a_anterior,
                   estado_laser_b_anterior, detectado, lm_t, aviso_timeout, web_pc,
                   web_usuario, web_respuesta, db_accesos, b_hist, aperturas,
                   incrementos, n_entradas, n_boton, bm_t, main_pc, login_attempts,
                   ahora, login_respuesta, ser_buf, linea, pt_pc, codigo_tarjeta,
                   pt_descartados>>

BmSalir ==
    /\ ~sistema_activo
    /\ bm_pc = "espera"
    /\ bm_pc' = "fin_hilo"
    /\ UNCHANGED <<estado_sistema, cola_eventos, cola_comandos, led_rojo, led_verde,
                   s1, s2, denegados, boton, laserA, laserB, sesiones, ev_pc,
                   ev_usuario, ev_tmp, dc_pc, lm_pc, estado_laser_a_anterior,
                   estado_laser_b_anterior, detectado, lm_t, aviso_timeout, web_pc,
                   web_usuario, web_respuesta, db_accesos, b_hist, aperturas,
                   incrementos, n_entradas, n_boton, bm_t, main_pc, login_attempts,
                   ahora, login_respuesta, ser_buf, linea, pt_pc, codigo_tarjeta,
                   pt_descartados>>

LmSalir ==
    /\ ~sistema_activo
    /\ lm_pc = "bucle"
    /\ lm_pc' = "fin_hilo"
    /\ UNCHANGED <<estado_sistema, cola_eventos, cola_comandos, led_rojo, led_verde,
                   s1, s2, denegados, boton, laserA, laserB, sesiones, ev_pc,
                   ev_usuario, ev_tmp, dc_pc, bm_pc, estado_laser_a_anterior,
                   estado_laser_b_anterior, detectado, lm_t, aviso_timeout, web_pc,
                   web_usuario, web_respuesta, db_accesos, b_hist, aperturas,
                   incrementos, n_entradas, n_boton, bm_t, main_pc, login_attempts,
                   ahora, login_respuesta, ser_buf, linea, pt_pc, codigo_tarjeta,
                   pt_descartados>>

\* The join timed out after 5 s, which only a crossing wait outlasts:
\* proceso_sensores.terminate() kills process 2 and its threads where they are.
TerminarProceso2 ==
    /\ main_pc = "join"
    /\ lm_pc \in {"espera1", "espera2"}
    /\ lm_pc' = "fin_hilo"
    /\ bm_pc' = "fin_hilo"
    /\ UNCHANGED <<estado_sistema, cola_eventos, cola_comandos, led_rojo, led_verde,
                   s1, s2, denegados, boton, laserA, laserB, sesiones, ev_pc,
                   ev_usuario, ev_tmp, dc_pc, estado_laser_a_anterior,
                   estado_laser_b_anterior, detectado, lm_t, aviso_timeout, web_pc,
                   web_usuario, web_respuesta, db_accesos, b_hist, aperturas,
                   incrementos, n_entradas, n_boton, bm_t, main_pc, login_attempts,
                   ahora, login_respuesta, ser_buf, linea, pt_pc, codigo_tarjeta,
                   pt_descartados>>

\* Process 2 has ended: LEDs off, s1.angle = 0, s2.angle = 180, lcd.clear(),
\* db_handler.close()
ApagarActuadores ==
    /\ main_pc = "join"
    /\ bm_pc = "fin_hilo" /\ lm_pc = "fin_hilo"
    /\ led_verde' = FALSE /\ led_rojo' = FALSE
    /\ s1' = 0 /\ s2' = 180
    /\ main_pc' = "cerrado"
    /\ UNCHANGED <<estado_sistema, cola_eventos, cola_comandos, denegados, boton,
                   laserA, laserB, sesiones, ev_pc, ev_usuario, ev_tmp, dc_pc, bm_pc,
                   lm_pc, estado_laser_a_anterior, estado_laser_b_anterior, detectado,
                   lm_t, aviso_timeout, web_pc, web_usuario, web_respuesta, db_accesos,
                   b_hist, aperturas, incrementos, n_entradas, n_boton, bm_t,
                   login_attempts, ahora, login_respuesta, ser_buf, linea, pt_pc,
                   codigo_tarjeta, pt_descartados>>

\* iniciar_sistema returns and the interpreter exits: the daemon threads
\* hilo_procesador_eventos and hilo_control_puertas end where they are.
Salida ==
    /\ main_pc = "cerrado"
    /\ ev_pc' = "fin_hilo" /\ dc_pc' = "fin_hilo"
    /\ main_pc' = "fin"
    /\ UNCHANGED <<estado_sistema, cola_eventos, cola_comandos, led_rojo, led_verde,
                   s1, s2, denegados, boton, laserA, laserB, sesiones, ev_usuario,
                   ev_tmp, bm_pc, lm_pc, estado_laser_a_anterior,
                   estado_laser_b_anterior, detectado, lm_t, aviso_timeout, web_pc,
                   web_usuario, web_respuesta, db_accesos, b_hist, aperturas,
                   incrementos, n_entradas, n_boton, bm_t, login_attempts, ahora,
                   login_respuesta, ser_buf, linea, pt_pc, codigo_tarjeta,
                   pt_descartados>>

\* A loop takes new work only in a pass that found sistema_activo set; work in
\* progress goes on whatever the flag.
NextApagado ==
    \/ sistema_activo /\ PasosNuevos
    \/ PasosAcceso \/ EvUltimoAcceso \/ PasosEnCurso
    \/ Apagar \/ EvSalir \/ DcSalir \/ BmSalir \/ LmSalir
    \/ TerminarProceso2 \/ ApagarActuadores \/ Salida

\* The same system, shut down at any moment.
SpecApagado == InitServicio /\ [][NextApagado]_vars


\* ------------------------------------------------------------ login lockout
\* The login route alone: requests for a registered and for an unregistered
\* username, with accepted or refused credentials, and the passing of time.
Solicitantes == {"admin", "intruso"}

NextLogin ==
    \/ LoginExitoso("admin") \/ WebLoginUsuario
    \/ (\E u \in Solicitantes : LoginFallido(u))
    \/ (\E u \in Solicitantes : LoginBloqueado(u))
    \/ LoginSinDatos
    \/ PasaTiempo

SpecLogin == Init /\ [][NextLogin]_vars

\* ------------------------------------ the sequential card-reader prototype
\* src/Pruebas/sistema_completo_metro.py: main() closes the doors and then, for
\* ever, waits for a card, opens, waits for the crossing and closes.

\* Byte values told apart: 0x0A, 0x0D, the digit '1' and a byte that is not ASCII.
Bytes == {10, 13, 49, 233}

\* Ten digits, as a card carries them.
Digitos == [i \in 1..10 |-> 49]

\* What may stand between the first and the last byte of a transmission: the
\* digits, or the digits with one byte damaged.
Cargas == {Digitos, [Digitos EXCEPT ![3] = 233], [Digitos EXCEPT ![10] = 13]}

\* The 12-byte transmissions that may reach the serial port.
Tramas == {<<p>> \o c \o <<u>> : p \in Bytes, c \in Cargas, u \in Bytes}

\* bytes.decode('ascii', errors='ignore'): the bytes that are not ASCII are left out
DecodeAscii(s) == SelectSeq(s, LAMBDA b : b < 128)

\* main is between abrir_puertas and the end of cerrar_puertas.
PtEnSecuencia == pt_pc \in {"abrir", "paso", "cerrar"}

\* Servos of the prototype are built without initial_angle, both at 0.
InitPrototipo ==
    /\ estado_sistema = [estado_puerta |-> "CERRADA",
                         total_accesos |-> 0,
                         personas_dentro |-> 0,
                         detectando_paso |-> FALSE,
                         boton_habilitado |-> FALSE,
                         usuario_actual |-> None,
                         ultimo_acceso |-> None,
                         laser_a_bloqueado |-> FALSE,
                         laser_b_bloqueado |-> FALSE]
    /\ cola_eventos = <<>>
    /\ cola_comandos = <<>>
    /\ led_rojo = FALSE /\ led_verde = FALSE
    /\ s1 = 0 /\ s2 = 0
    /\ denegados = 0
    /\ boton = FALSE /\ laserA = FALSE /\ laserB = FALSE
    /\ sesiones = {}
    /\ ev_pc = "idle" /\ ev_usuario = None /\ ev_tmp = 0
    /\ dc_pc = "idle"
    /\ bm_pc = "inicio"
    /\ lm_pc = "bucle"
    /\ estado_laser_a_anterior = FALSE /\ estado_laser_b_anterior = FALSE
    /\ detectado = FALSE /\ lm_t = 0 /\ aviso_timeout = FALSE
    /\ web_pc = "idle" /\ web_usuario = None
    /\ web_respuesta = 0
    /\ db_accesos = {}
    /\ b_hist = "nada"
    /\ aperturas = 0 /\ incrementos = 0
    /\ n_entradas = 0 /\ n_boton = 0
    /\ bm_t = 0
    /\ main_pc = "servidor"
    /\ login_attempts = [u \in Nombres |-> SinRegistro]
    /\ ahora = 0
    /\ login_respuesta = 0
    /\ ser_buf = <<>> /\ linea = <<>>
    /\ pt_pc = "inicio"
    /\ codigo_tarjeta = <<>>
    /\ pt_descartados = 0

\* The reader starts to send 12 bytes.
PtTransmite ==
    /\ linea = <<>>
    /\ n_entradas < MaxTramas
    /\ \E t \in Tramas : linea' = t
    /\ n_entradas' = n_entradas + 1
    /\ UNCHANGED <<estado_sistema, cola_eventos, cola_comandos, led_rojo, led_verde,
                   s1, s2, denegados, boton, laserA, laserB, sesiones, ev_pc,
                   ev_usuario, ev_tmp, dc_pc, bm_pc, lm_pc, estado_laser_a_anterior,
                   estado_laser_b_anterior, detectado, lm_t, aviso_timeout, web_pc,
                   web_usuario, web_respuesta, db_accesos, b_hist, aperturas,
                   incrementos, n_boton, bm_t, main_pc, login_attempts, ahora,
                   login_respuesta, ser_buf, pt_pc, codigo_tarjeta, pt_descartados>>

\* One byte reaches the input buffer of the port.
PtLlega ==
    /\ linea # <<>>
    /\ ser_buf' = Append(ser_buf, [b |-> Head(linea), sec |-> PtEnSecuencia])
    /\ linea' = Tail(linea)
    /\ UNCHANGED <<estado_sistema, cola_eventos, cola_comandos, led_rojo, led_verde,
                   s1, s2, denegados, boton, laserA, laserB, sesiones, ev_pc,
                   ev_usuario, ev_tmp, dc_pc, bm_pc, lm_pc, estado_laser_a_anterior,
                   estado_laser_b_anterior, detectado, lm_t, aviso_timeout, web_pc,
                   web_usuario, web_respuesta, db_accesos, b_hist, aperturas,
                   incrementos, n_entradas, n_boton, bm_t, main_pc, login_attempts,
                   ahora, login_respuesta, pt_pc, codigo_tarjeta, pt_descartados>>

\* main: the first cerrar_puertas(): led_verde.off(); led_rojo.on(); s1.angle = 0;
\* s2.angle = 180
PtCerrarInicial ==
    /\ pt_pc = "inicio"
    /\ led_verde' = FALSE /\ led_rojo' = TRUE
    /\ s1' = 0 /\ s2' = 180
    /\ pt_pc' = "reset"
    /\ UNCHANGED <<estado_sistema, cola_eventos, cola_comandos, denegados, boton,
                   laserA, laserB, sesiones, ev_pc, ev_usuario, ev_tmp, dc_pc, bm_pc,
                   lm_pc, estado_laser_a_anterior, estado_laser_b_anterior, detectado,
                   lm_t, aviso_timeout, web_pc, web_usuario, web_respuesta, db_accesos,
                   b_hist, aperturas, incrementos, n_entradas, n_boton, bm_t, main_pc,
                   login_attempts, ahora, login_respuesta, ser_buf, linea,
                   codigo_tarjeta, pt_descartados>>

\* A variant of the wait that keeps what the buffer holds.
MutPtReset ==
    /\ pt_pc = "reset"
    /\ pt_pc' = "espera"
    /\ UNCHANGED <<estado_sistema, cola_eventos, cola_comandos, led_rojo, led_verde,
                   s1, s2, denegados, boton, laserA, laserB, sesiones, ev_pc,
                   ev_usuario, ev_tmp, dc_pc, bm_pc, lm_pc, estado_laser_a_anterior,
                   estado_laser_b_anterior, detectado, lm_t, aviso_timeout, web_pc,
                   web_usuario, web_respuesta, db_accesos, b_hist, aperturas,
                   incrementos, n_entradas, n_boton, bm_t, main_pc, login_attempts,
                   ahora, login_respuesta, ser_buf, linea, codigo_tarjeta,
                   pt_descartados>>

\* esperar_tarjeta_parallax: ser.reset_input_buffer()
PtReset ==
    /\ pt_pc = "reset"
    /\ ser_buf' = <<>>
    /\ pt_descartados' =
          pt_descartados + Cardinality({i \in DOMAIN ser_buf : ser_buf[i].sec})
    /\ pt_pc' = "espera"
    /\ UNCHANGED <<estado_sistema, cola_eventos, cola_comandos, led_rojo, led_verde,
                   s1, s2, denegados, boton, laserA, laserB, sesiones, ev_pc,
                   ev_usuario, ev_tmp, dc_pc, bm_pc, lm_pc, estado_laser_a_anterior,
                   estado_laser_b_anterior, detectado, lm_t, aviso_timeout, web_pc,
                   web_usuario, web_respuesta, db_accesos, b_hist, aperturas,
                   incrementos, n_entradas, n_boton, bm_t, main_pc, login_attempts,
                   ahora, login_respuesta, linea, codigo_tarjeta>>

\* esperar_tarjeta_parallax, a pass of the loop with ser.in_waiting >= 12:
\* data = ser.read(12); if data[0] == 0x0A and data[-1] == 0x0D:
\* return data[1:-1].decode('ascii', errors='ignore'); otherwise go on waiting.
PtLeer ==
    /\ pt_pc = "espera"
    /\ Len(ser_buf) >= TRAMA
    /\ ser_buf' = SubSeq(ser_buf, TRAMA + 1, Len(ser_buf))
    /\ LET data == [i \in 1..TRAMA |-> ser_buf[i].b]
       IN IF data[1] = 10 /\ data[TRAMA] = 13
            THEN /\ codigo_tarjeta' = DecodeAscii(SubSeq(data, 2, TRAMA - 1))
                 /\ pt_pc' = "abrir"
            ELSE /\ codigo_tarjeta' = codigo_tarjeta
                 /\ pt_pc' = pt_pc
    /\ UNCHANGED <<estado_sistema, cola_eventos, cola_comandos, led_rojo, led_verde,
                   s1, s2, denegados, boton, laserA, laserB, sesiones, ev_pc,
                   ev_usuario, ev_tmp, dc_pc, bm_pc, lm_pc, estado_laser_a_anterior,
                   estado_laser_b_anterior, detectado, lm_t, aviso_timeout, web_pc,
                   web_usuario, web_respuesta, db_accesos, b_hist, aperturas,
                   incrementos, n_entradas, n_boton, bm_t, main_pc, login_attempts,
                   ahora, login_respuesta, linea, pt_descartados>>

\* abrir_puertas(): led_rojo.off(); led_verde.on(); s1.angle = 90; s2.angle = 90
PtAbrir ==
    /\ pt_pc = "abrir"
    /\ led_rojo' = FALSE /\ led_verde' = TRUE
    /\ s1' = 90 /\ s2' = 90
    /\ aperturas' = aperturas + 1
    /\ pt_pc' = "paso"
    /\ UNCHANGED <<estado_sistema, cola_eventos, cola_comandos, denegados, boton,
                   laserA, laserB, sesiones, ev_pc, ev_usuario, ev_tmp, dc_pc, bm_pc,
                   lm_pc, estado_laser_a_anterior, estado_laser_b_anterior, detectado,
                   lm_t, aviso_timeout, web_pc, web_usuario, web_respuesta, db_accesos,
                   b_hist, incrementos, n_entradas, n_boton, bm_t, main_pc,
                   login_attempts, ahora, login_respuesta, ser_buf, linea,
                   codigo_tarjeta, pt_descartados>>

\* esperar_paso_persona(): time.sleep(5)
PtPaso ==
    /\ pt_pc = "paso"
    /\ pt_pc' = "cerrar"
    /\ UNCHANGED <<estado_sistema, cola_eventos, cola_comandos, led_rojo, led_verde,
                   s1, s2, denegados, boton, laserA, laserB, sesiones, ev_pc,
                   ev_usuario, ev_tmp, dc_pc, bm_pc, lm_pc, estado_laser_a_anterior,
                   estado_laser_b_anterior, detectado, lm_t, aviso_timeout, web_pc,
                   web_usuario, web_respuesta, db_accesos, b_hist, aperturas,
                   incrementos, n_entradas, n_boton, bm_t, main_pc, login_attempts,
                   ahora, login_respuesta, ser_buf, linea, codigo_tarjeta,
                   pt_descartados>>

\* cerrar_puertas(): led_verde.off(); led_rojo.on(); s1.angle = 0; s2.angle = 180;
\* then the next esperar_tarjeta_parallax()
PtCerrar ==
    /\ pt_pc = "cerrar"
    /\ led_verde' = FALSE /\ led_rojo' = TRUE
    /\ s1' = 0 /\ s2' = 180
    /\ pt_pc' = "reset"
    /\ UNCHANGED <<estado_sistema, cola_eventos, cola_comandos, denegados, boton,
                   laserA, laserB, sesiones, ev_pc, ev_usuario, ev_tmp, dc_pc, bm_pc,
                   lm_pc, estado_laser_a_anterior, estado_laser_b_anterior, detectado,
                   lm_t, aviso_timeout, web_pc, web_usuario, web_respuesta, db_accesos,
                   b_hist, aperturas, incrementos, n_entradas, n_boton, bm_t, main_pc,
                   login_attempts, ahora, login_respuesta, ser_buf, linea,
                   codigo_tarjeta, pt_descartados>>

NextPrototipo ==
    \/ PtTransmite \/ PtLlega
    \/ PtCerrarInicial \/ PtReset \/ PtLeer \/ PtAbrir \/ PtPaso \/ PtCerrar

SpecPrototipo == InitPrototipo /\ [][NextPrototipo]_vars
\* ======================================================================
\* Properties
\* ======================================================================

\* A door sequence is in progress: the door is open or a crossing wait is running.
SecuenciaEnCurso ==
    \/ estado_sistema.estado_puerta = "ABIERTA"
    \/ estado_sistema.detectando_paso

\* No thread has work left: both queues are empty, every thread is back in its
\* polling loop, no request is being served, the button is released and every
\* sensor change has been reported.  From such a state only a new input moves
\* the system.
Reposo ==
    /\ cola_eventos = <<>> /\ cola_comandos = <<>>
    /\ ev_pc = "idle" /\ dc_pc = "idle" /\ bm_pc = "espera" /\ lm_pc = "bucle"
    /\ web_pc = "idle"
    /\ ~boton
    /\ laserA = estado_laser_a_anterior /\ laserB = estado_laser_b_anterior

\* The accions hilo_control_puertas implements.
DcAcciones == {"abrir_puertas", "cerrar_puertas", "inicializar"}

\* The step appends a cerrar_puertas command to cola_comandos.
EncolaCerrar ==
    /\ Len(cola_comandos') = Len(cola_comandos) + 1
    /\ cola_comandos'[Len(cola_comandos')].accion = "cerrar_puertas"

\* C1: a boton_presionado event that the event processor takes while the door is
\* open or a crossing wait is running is dropped: the handler returns without
\* entering the grant path (which increments the counters and enqueues
\* abrir_puertas and esperar_paso).
C1_SegundoBotonDescartado ==
    [][(EvBoton /\ SecuenciaEnCurso) => ev_pc' = "idle"]_vars

\* C2: fail-closed.  If an open door always closed again, then whenever the system
\* has come to rest (nothing queued, every thread idle) the door would be CERRADA.
C2_FailClosed == Reposo => estado_sistema.estado_puerta = "CERRADA"

\* C3: a boton_presionado event taken while boton_habilitado is false changes
\* nothing in estado_sistema (so neither estado_puerta nor the counters), puts no
\* command on cola_comandos and issues one ACCESO DENEGADO notification.
C3_Gating ==
    [][(EvBoton /\ ~estado_sistema.boton_habilitado) =>
          /\ estado_sistema' = estado_sistema
          /\ cola_comandos' = cola_comandos
          /\ denegados' = denegados + 1
          /\ ev_pc' = "idle"]_vars

\* C3 witness: an access has been denied.
C3_Witness == denegados > 0 /\ ~estado_sistema.boton_habilitado

\* C4: the scenario, from the system in service with access enabled: one button
\* press is submitted and nothing else.  Once the system has come to rest the
\* door has been opened once for it, with total_accesos = 1.
C4_Escenario ==
    (/\ Reposo
     /\ n_entradas = 1 /\ n_boton = 1 /\ denegados = 0
     /\ sesiones # {})
    => (aperturas = 1 /\ estado_sistema.total_accesos = 1)

\* C5: a crossing wait ends (detectando_paso cleared, cerrar_puertas enqueued)
\* only in esperar_persona_paso, and only after sensor B was seen blocked and then
\* seen clear, or once the 15 s deadline has passed; no other step, whatever
\* sensor A or the button do, ends it.
C5_SoloCruceOTimeout ==
    [][((estado_sistema.detectando_paso /\ ~estado_sistema'.detectando_paso)
        \/ EncolaCerrar)
       => (/\ lm_pc \in {"fin", "put_cerrar"}
           /\ (b_hist = "libre" \/ lm_t >= TIMEOUT))]_vars

\* C5 witness: a wait has ended by a crossing (sensor B blocked, then clear) before
\* the deadline, and cerrar_puertas is about to be enqueued.
C5_Witness ==
    /\ lm_pc = "put_cerrar" /\ b_hist = "libre" /\ lm_t < TIMEOUT
    /\ ~estado_sistema.detectando_paso

\* C6: a wait that ends without sensor B having been seen blocked and then clear
\* has logged the timeout warning.
C6_TimeoutRegistrado ==
    (lm_pc \in {"fin", "put_cerrar"} /\ b_hist # "libre") => aviso_timeout

\* C7: a logout made while the door is open or a crossing wait is running leaves
\* estado_puerta, detectando_paso, cola_comandos and the wait itself untouched.
C7_LogoutSeguro ==
    [][((WebLogout \/ WebLogoutUsuario) /\ SecuenciaEnCurso) =>
          /\ estado_sistema'.estado_puerta = estado_sistema.estado_puerta
          /\ estado_sistema'.detectando_paso = estado_sistema.detectando_paso
          /\ cola_comandos' = cola_comandos
          /\ lm_pc' = lm_pc /\ lm_t' = lm_t /\ detectado' = detectado]_vars

\* C7 witness: a logout is half done while a crossing wait is running with the
\* door open.
C7_Witness ==
    /\ web_pc = "logout_usuario"
    /\ estado_sistema.detectando_paso
    /\ estado_sistema.estado_puerta = "ABIERTA"
    /\ lm_pc \in {"espera1", "espera2"}

\* C8: no access is counted for which the door is not opened: whenever no grant is
\* being processed and no abrir_puertas command is waiting, the increments of
\* total_accesos since the last reset equal the abrir_puertas runs since then.
C8_AccesosAbiertos ==
    (/\ ev_pc = "idle"
     /\ \A i \in DOMAIN cola_comandos : cola_comandos[i].accion # "abrir_puertas")
    => incrementos = aperturas

\* C9: when cerrar_puertas has made its last write, usuario_actual is None,
\* boton_habilitado is False and detectando_paso is False.
C9_CierreLimpia ==
    [][DcCerrarUsuario =>
          /\ estado_sistema'.usuario_actual = None
          /\ ~estado_sistema'.boton_habilitado
          /\ ~estado_sistema'.detectando_paso]_vars

\* C10: a command taken from cola_comandos is executed by the thread that took it:
\* the door controller takes only abrir_puertas, cerrar_puertas and inicializar,
\* and the laser monitor takes only esperar_paso.
C10_NingunDescartado ==
    [][/\ DcTomar => Head(cola_comandos).accion \in DcAcciones
       /\ LmComando => Head(cola_comandos).accion = "esperar_paso"]_vars

\* hilo_control_puertas is executing abrir_puertas or cerrar_puertas.
DcEnActuador == dc_pc # "idle"

\* A step of a web request that calls mostrar_lcd: login after its two writes,
\* logout after its two writes.
LcdDesdeWeb == WebLoginUsuario \/ WebLogoutUsuario

\* A step of the event processor that calls mostrar_lcd: the denied access.
LcdDesdeEventos == EvBoton /\ ~estado_sistema.boton_habilitado

\* C11: no mostrar_lcd call is made by a web request or by the event processor
\* while the door controller is executing abrir_puertas or cerrar_puertas: actuator
\* operations never overlap.
C11_ActuadorSinSolape ==
    [][(LcdDesdeWeb \/ LcdDesdeEventos) => ~DcEnActuador]_vars

\* dict(estado_sistema) in obtener_estado, for a reader that gets all fields in one
\* instant, extended with the LED readings.
obtener_estado ==
    [estado_puerta |-> estado_sistema.estado_puerta,
     total_accesos |-> estado_sistema.total_accesos,
     personas_dentro |-> estado_sistema.personas_dentro,
     detectando_paso |-> estado_sistema.detectando_paso,
     boton_habilitado |-> estado_sistema.boton_habilitado,
     usuario_actual |-> estado_sistema.usuario_actual,
     ultimo_acceso |-> estado_sistema.ultimo_acceso,
     led_verde |-> led_verde,
     led_rojo |-> led_rojo]

\* C12: a status read made by a logged-in client never sees a half-done counter
\* update: total_accesos and personas_dentro, which grants increment together and
\* the reset clears together, are equal in every snapshot.
C12_LecturaCoherente ==
    sesiones # {} => obtener_estado.total_accesos = obtener_estado.personas_dentro

\* C13: estado_puerta changes only in the steps of abrir_puertas and cerrar_puertas
\* taken by hilo_control_puertas.
C13_SoloControlPuertas ==
    [][estado_sistema'.estado_puerta # estado_sistema.estado_puerta
         => (DcAbrirEstado \/ DcCerrarEstado)]_vars

\* C13 witness: the door is open while the counter reset is being served.
C13_Witness ==
    /\ estado_sistema.estado_puerta = "ABIERTA"
    /\ web_pc = "reset_personas"

\* C14: once no grant and no request is in progress, total_accesos equals the number
\* of increments made since the last reset (or since the start).
C14_ResetIdempotente ==
    (ev_pc = "idle" /\ web_pc = "idle")
    => estado_sistema.total_accesos = incrementos

\* C15: while no request and no door operation is in progress, boton_habilitado is
\* true only if some logged-in session's user name is usuario_actual.
C15_SesionLigada ==
    (web_pc = "idle" /\ dc_pc = "idle" /\ estado_sistema.boton_habilitado)
    => \E u \in sesiones : Nombre(u) = estado_sistema.usuario_actual

\* C16: a crossing wait runs only with the door open: detectando_paso implies that
\* estado_puerta is ABIERTA, or that abrir_puertas is running and about to set it.
C16_EsperaConPuertaAbierta ==
    estado_sistema.detectando_paso
    => (estado_sistema.estado_puerta = "ABIERTA" \/ dc_pc = "abrir_estado")

\* C17: every denied button event writes an access event with access_granted = False
\* to the telemetry store.
C17_TelemetriaDenegado ==
    [][(EvBoton /\ ~estado_sistema.boton_habilitado) => FALSE \in db_accesos']_vars

\* C18: a /simular_acceso request made while boton_habilitado is false changes
\* nothing in estado_sistema, puts nothing on either queue, and is answered with a
\* refusal (401 without a session, 403 with one).
C18_SimularSinAcceso ==
    [][((WebSimular \/ WebSimularRechazado) /\ ~estado_sistema.boton_habilitado) =>
          /\ estado_sistema' = estado_sistema
          /\ cola_eventos' = cola_eventos
          /\ cola_comandos' = cola_comandos
          /\ web_respuesta' \in {401, 403}]_vars

\* C18 witness: a logged-in client whose access was disabled again has been refused
\* with 403, and the door is closed with nothing queued.
C18_Witness ==
    /\ web_respuesta = 403
    /\ sesiones # {}
    /\ ~estado_sistema.boton_habilitado
    /\ estado_sistema.estado_puerta = "CERRADA"
    /\ cola_eventos = <<>> /\ cola_comandos = <<>>

\* C19: a laser event sets the flag of its sensor: laser_a_bloqueado for sensor A,
\* laser_b_bloqueado for sensor B, to whether the event is laser_bloqueado.
C19_LaserObservacion ==
    [][EvLaser =>
          LET e == Head(cola_eventos)
          IN /\ e.laser = "A" =>
                  estado_sistema'.laser_a_bloqueado = (e.tipo = "laser_bloqueado")
             /\ e.laser = "B" =>
                  estado_sistema'.laser_b_bloqueado = (e.tipo = "laser_bloqueado")]_vars

\* The step appends to cola_eventos an event of sensor id.
EmiteLaser(id) ==
    /\ Len(cola_eventos') = Len(cola_eventos) + 1
    /\ cola_eventos'[Len(cola_eventos')].laser = id

\* The tipo of the event the step appends to cola_eventos.
TipoEmitido == cola_eventos'[Len(cola_eventos')].tipo

\* C20: the laser monitor puts an event for a sensor exactly when its remembered
\* sample changes, and the event tells the new sample.  The remembered sample
\* starts free and flips at each event, so the events of one sensor alternate
\* laser_bloqueado, laser_libre, laser_bloqueado, ...
C20_EventosAlternan ==
    [][/\ EmiteLaser("A") <=> estado_laser_a_anterior' # estado_laser_a_anterior
       /\ EmiteLaser("B") <=> estado_laser_b_anterior' # estado_laser_b_anterior
       /\ EmiteLaser("A") =>
            TipoEmitido = IF estado_laser_a_anterior THEN "laser_libre"
                                                     ELSE "laser_bloqueado"
       /\ EmiteLaser("B") =>
            TipoEmitido = IF estado_laser_b_anterior THEN "laser_libre"
                                                     ELSE "laser_bloqueado"]_vars

\* C20 witness: sensor A was blocked and released, and its two events wait on
\* cola_eventos in that order.
C20_Witness ==
    /\ Len(cola_eventos) >= 2
    /\ cola_eventos[1] = EvtLaser(TRUE, "A")
    /\ cola_eventos[2] = EvtLaser(FALSE, "A")
    /\ ~estado_laser_a_anterior

\* C21: the button monitor puts one event per press: since every button event
\* comes from one input (a press of the button or a web request), there are never
\* more button events than inputs.
C21_UnEventoPorPulsacion == n_boton <= n_entradas

\* C29: when cola_eventos is drained and no event is being handled, the flags
\* laser_a_bloqueado and laser_b_bloqueado equal the last samples the laser monitor
\* reported.
C29_FlagsIgualMuestra ==
    (cola_eventos = <<>> /\ ev_pc = "idle")
    => /\ estado_sistema.laser_a_bloqueado = estado_laser_a_anterior
       /\ estado_sistema.laser_b_bloqueado = estado_laser_b_anterior

\* C30: whenever no grant and no reset is in progress, total_accesos equals
\* personas_dentro.
C30_ContadoresIguales ==
    (ev_pc = "idle" /\ web_pc = "idle")
    => estado_sistema.total_accesos = estado_sistema.personas_dentro

\* C22: a button event that is not the monitor's first is put only after the
\* whole quiet period has been slept since the previous one.
C22_Debounce ==
    [][(n_boton' = n_boton + 1 /\ n_boton > 0) => bm_t >= QUIETO]_vars

\* C22 witness: the monitor has put its second event and sleeps again.
C22_Witness == n_boton = 2 /\ bm_pc = "debounce" /\ bm_t = 0

\* The event is none the event processor knows how to handle.
Malformado(e) ==
    \/ e.tipo \notin {"boton_presionado", "laser_bloqueado", "laser_libre"}
    \/ e.tipo \in {"laser_bloqueado", "laser_libre"} /\ e.laser \notin {"A", "B"}

\* C26: taking a malformed event from cola_eventos leaves estado_sistema as it
\* is (no field changed, none added), puts no command, and leaves the event
\* processor ready for the next event.
C26_MalformadoDescartado ==
    [][(/\ cola_eventos # <<>>
        /\ cola_eventos' = Tail(cola_eventos)
        /\ Malformado(Head(cola_eventos)))
       => /\ estado_sistema' = estado_sistema
          /\ cola_comandos' = cola_comandos
          /\ ev_pc' = "idle"]_vars

\* C23: every crossing wait ends: once detectando_paso is set, the laser monitor
\* gets back to its loop with detectando_paso cleared, and the step that takes it
\* back puts one cerrar_puertas command.
C23_EsperaAcotada ==
    /\ estado_sistema.detectando_paso
         ~> (lm_pc = "bucle" /\ ~estado_sistema.detectando_paso)
    /\ [][(lm_pc # "bucle" /\ lm_pc' = "bucle") => EncolaCerrar]_vars

\* C23 witness: a wait in which sensor B was never blocked has timed out, and its
\* cerrar_puertas is the next command.
C23_Witness ==
    /\ lm_pc = "bucle" /\ aviso_timeout /\ b_hist = "nada"
    /\ cola_comandos # <<>>
    /\ Head(cola_comandos).accion = "cerrar_puertas"

\* C24: when abrir_puertas or cerrar_puertas ends, by returning or by an actuator
\* call that raised, estado_puerta has the value the operation sets.
C24_FalloNoBloquea ==
    [][(dc_pc # "idle" /\ dc_pc' = "idle") =>
          estado_sistema'.estado_puerta =
              IF dc_pc = "abrir_estado" THEN "ABIERTA" ELSE "CERRADA"]_vars

\* C25: a grant whose telemetry write fails goes on exactly as one whose write
\* succeeds: ultimo_acceso is set, nothing else changes, and the next step puts
\* abrir_puertas.
C25_TelemetriaNoAfecta ==
    [][EvUltimoAccesoFallo =>
          /\ estado_sistema' = [estado_sistema EXCEPT !.ultimo_acceso = ev_usuario]
          /\ cola_comandos' = cola_comandos
          /\ ev_pc' = "put_abrir"]_vars

\* C25 witness: the door was opened for an access whose telemetry write failed.
C25_Witness ==
    /\ db_accesos = {}
    /\ estado_sistema.total_accesos = 1
    /\ estado_sistema.ultimo_acceso # None
    /\ estado_sistema.estado_puerta = "ABIERTA"

\* C27: once the finally block has set the actuators, the servos are at the closed
\* angles and stay there.
C27_ApagadoCerrado ==
    main_pc \in {"cerrado", "fin"} => (s1 = 0 /\ s2 = 180)

\* C28: a loop ends only from its top, with no unit of work in progress.
C28_SalidaLimpia ==
    [][/\ (ev_pc' = "fin_hilo" /\ ev_pc # "fin_hilo") => ev_pc = "idle"
       /\ (dc_pc' = "fin_hilo" /\ dc_pc # "fin_hilo") => dc_pc = "idle"
       /\ (bm_pc' = "fin_hilo" /\ bm_pc # "fin_hilo") => bm_pc = "espera"
       /\ (lm_pc' = "fin_hilo" /\ lm_pc # "fin_hilo") => lm_pc = "bucle"]_vars


\* C31: every granted access is attributed to a user: the usuario that the grant
\* stores in ultimo_acceso and passes to write_access_event is never None.
C31_UsuarioAtribuido == [][EvUltimoAcceso => ev_usuario # None]_vars

\* C32: once cerrar_puertas has cleared boton_habilitado, a button event is denied
\* until a login: the close leaves the flag false, only a login makes it true
\* again, and a button event taken while it is false increments no counter and
\* puts no command.
C32_DenegadoTrasCierre ==
    [][/\ (dc_pc = "cerrar_boton" /\ dc_pc' # "cerrar_boton")
            => ~estado_sistema'.boton_habilitado
       /\ (~estado_sistema.boton_habilitado /\ estado_sistema'.boton_habilitado)
            => WebLogin
       /\ (EvBoton /\ ~estado_sistema.boton_habilitado)
            => /\ estado_sistema'.total_accesos = estado_sistema.total_accesos
               /\ estado_sistema'.personas_dentro = estado_sistema.personas_dentro
               /\ cola_comandos' = cola_comandos
               /\ ev_pc' = "idle"]_vars

\* C32 witness: one access was granted and its sequence has closed the door; a
\* second button event, with no login since, has been denied.
C32_Witness ==
    /\ estado_sistema.total_accesos = 1 /\ aperturas = 1
    /\ estado_sistema.estado_puerta = "CERRADA"
    /\ ~estado_sistema.boton_habilitado
    /\ n_boton = 2 /\ denegados = 1
    /\ dc_pc = "idle" /\ ev_pc = "idle"
    /\ cola_eventos = <<>> /\ cola_comandos = <<>>

\* C33: cerrar_puertas takes access away from a logged-in user only at the end of
\* a sequence: when it clears a boton_habilitado that was true, an access has been
\* granted before.
C33_CierreNoRevoca ==
    [][(DcCerrarBoton /\ estado_sistema.boton_habilitado) => TRUE \in db_accesos]_vars

\* C34: a web trigger made while the door is open or a crossing wait is running
\* is answered 409 and puts no event on cola_eventos.
C34_OcupadoRechaza ==
    [][((WebSimular \/ WebSimularRechazado) /\ SecuenciaEnCurso) =>
          /\ web_respuesta' = 409
          /\ cola_eventos' = cola_eventos]_vars

PeticionLogin(u) == LoginExitoso(u) \/ LoginFallido(u) \/ LoginBloqueado(u)

\* MAX_LOGIN_ATTEMPTS failures are recorded for u and no more than LOCKOUT_DURATION
\* minutes have passed since the last one recorded.
Bloqueado(u) ==
    /\ login_attempts[u].attempts >= MAX_LOGIN_ATTEMPTS
    /\ ahora - login_attempts[u].last <= LOCKOUT_DURATION

\* C36: while MAX_LOGIN_ATTEMPTS failed logins are recorded for a username and no
\* more than LOCKOUT_DURATION minutes have passed since the last of them, every
\* login request for it is answered 403, opens no session, leaves estado_sistema
\* as it is and records nothing; and an accepted login leaves no failure record
\* for its username.
C36_Bloqueo ==
    [][\A u \in Nombres :
          /\ (PeticionLogin(u) /\ Bloqueado(u)) =>
                /\ login_respuesta' = 403
                /\ sesiones' = sesiones
                /\ estado_sistema' = estado_sistema
                /\ login_attempts' = login_attempts
          /\ LoginExitoso(u) => ~Registrado(login_attempts', u)]_vars

\* C36 witness: admin is locked out, LOCKOUT_DURATION minutes after the fifth
\* failure, and the last request was answered 403.
C36_Witness ==
    /\ login_attempts["admin"].attempts = MAX_LOGIN_ATTEMPTS
    /\ ahora - login_attempts["admin"].last = LOCKOUT_DURATION
    /\ login_respuesta = 403
    /\ sesiones = {}

\* C37: a 12-byte read makes the wait return exactly when it starts with 0x0A and
\* ends with 0x0D, and the code returned is the 10 bytes between them; after any
\* other read the wait goes on and nothing is returned.
C37_TramaValida ==
    [][PtLeer =>
          LET data == [i \in 1..TRAMA |-> ser_buf[i].b]
          IN IF data[1] = 10 /\ data[TRAMA] = 13
               THEN /\ pt_pc' = "abrir"
                    /\ codigo_tarjeta' = SubSeq(data, 2, TRAMA - 1)
               ELSE /\ pt_pc' = "espera"
                    /\ codigo_tarjeta' = codigo_tarjeta]_vars

\* C38: the prototype runs abrir_puertas, esperar_paso_persona and cerrar_puertas
\* in this order for each card it accepts, reads the port only while it waits for
\* a card, and accepts no transmission of which a byte came in while a sequence
\* was running.
C38_SecuenciaPorTarjeta ==
    [][/\ (pt_pc = "espera" /\ pt_pc' # "espera")
            => /\ pt_pc' = "abrir"
               /\ \A i \in 1..TRAMA : ~ser_buf[i].sec
       /\ (pt_pc = "abrir" /\ pt_pc' # "abrir")
            => (pt_pc' = "paso" /\ s1' = 90 /\ s2' = 90 /\ aperturas' = aperturas + 1)
       /\ (pt_pc = "paso" /\ pt_pc' # "paso") => pt_pc' = "cerrar"
       /\ (pt_pc = "cerrar" /\ pt_pc' # "cerrar")
            => (pt_pc' = "reset" /\ s1' = 0 /\ s2' = 180)
       /\ (pt_pc = "reset" /\ pt_pc' # "reset") => pt_pc' = "espera"
       /\ PtEnSecuencia => (codigo_tarjeta' = codigo_tarjeta
                            /\ Len(ser_buf') >= Len(ser_buf))]_vars

\* C38 witness: one card was accepted and its sequence has run; the 12 bytes that
\* came in meanwhile were dropped, and the prototype waits with an empty buffer.
C38_Witness ==
    /\ pt_pc = "espera" /\ aperturas = 1
    /\ pt_descartados = TRAMA
    /\ ser_buf = <<>> /\ linea = <<>>
    /\ s1 = 0 /\ s2 = 180
====
